---- MODULE Spec2Model ----
(***************************************************************************)
(* Elevator fleet: the per-elevator state machine (Elevator), the          *)
(* dispatcher (ElevatorController), the 50 ms update loop and the door /   *)
(* dwell timers of src/backend/src/Elevator.ts.                            *)
(*                                                                         *)
(* Positions are kept as integers in units of 1/PosScale of a floor, so    *)
(* that speed * (deltaTime / 1000) is exact; scores are kept as integers   *)
(* in units of 1/ScoreScale.  A value that is `null` in the code is the    *)
(* empty sequence here and a present value v is <<v>>.                     *)
(***************************************************************************)
EXTENDS Integers, Sequences, FiniteSets, TLC

(***************************************************************************)
(* Bounds of the model and configuration.                                  *)
(***************************************************************************)
MaxElevators == 1
NumFloors == 3
MaxQueue == 3
MaxRequests == 1
elevatorSpeed == 15
FarFloor == 720
LongQueue == 240
MaxBurst == 2
SortFloors == 5
FleetSize == 2
FleetFloors == 4
MaxClock == 1

UPDATE_RATE == 50
doorTime == 1000
MaxRecentArrivals == 10
dwellTime == 2000

\* 1000 ms / UPDATE_RATE position units per floor: one tick at speed 1 moves one unit
PosScale == 1000 \div UPDATE_RATE
\* score units: every term of calculateElevatorScore is an integer at this scale
ScoreScale == 10 * elevatorSpeed * PosScale

\* `updateInterval` is the handle of the setInterval of startUpdateLoop, <<>>
\* once stopUpdateLoop has cleared it
\* `now` is the time the event loop has reached and `nextTick` the time the
\* interval callback is due next, in milliseconds, kept where time is measured
\* (0 elsewhere)
\* `issued` counts the ids `req_${Date.now()}_${random}` made so far; the random
\* suffixes are taken as distinct, so that the number of an id stands for it
\* `notified` lists the invocations of the arrival callback made by the callback
\* that ran last, in the order they were made
VARIABLES numElevators, numFloors, elevators, pendingRequests, recentArrivals,
          updateInterval, now, nextTick, issued, lastOp, notified

vars == <<numElevators, numFloors, elevators, pendingRequests, recentArrivals,
          updateInterval, now, nextTick, issued, lastOp, notified>>

\* what a read of Date.now() returns: the wall clock in milliseconds, which
\* may stand still, run on or be set back between two reads, so that a read is
\* bound neither to the read before it nor to the timers
DateNow == 0..MaxClock

Statuses == {"IDLE", "MOVING_UP", "MOVING_DOWN", "DOORS_OPENING", "DOORS_OPEN",
             "DOORS_CLOSING", "ARRIVED"}

Directions == {"UP", "DOWN", "NONE"}

\* the optional `direction?` argument of callElevator: absent, UP or DOWN
CallDirections == {"undefined", "UP", "DOWN"}

(***************************************************************************)
(* Elevator                                                                *)
(***************************************************************************)
NewElevator(id, initialFloor) ==
    [id |-> id,
     currentFloor |-> initialFloor * PosScale,
     targetFloor |-> <<>>,
     status |-> "IDLE",
     direction |-> "NONE",
     queue |-> <<>>,
     doorOpen |-> FALSE,
     doorTime |-> doorTime,
     timers |-> <<>>,
     called |-> <<>>]

\* setTimeout(callback, delay): the pending callback `kind`, due when `elapsed`,
\* the time gone by since it was scheduled, reaches `delay` (milliseconds)
timeout(kind, delay) == [kind |-> kind, delay |-> delay, elapsed |-> 0]

\* mutant of getState: the id is reported counting from 1
getStateOneBasedId(el) ==
    [id |-> el.id + 1,
     currentFloor |-> el.currentFloor,
     targetFloor |-> el.targetFloor,
     status |-> el.status,
     direction |-> el.direction,
     queue |-> el.queue,
     doorOpen |-> el.doorOpen]

getState(el) ==
    [id |-> el.id,
     currentFloor |-> el.currentFloor,
     targetFloor |-> el.targetFloor,
     status |-> el.status,
     direction |-> el.direction,
     queue |-> el.queue,
     doorOpen |-> el.doorOpen]

includes(q, floor) == \E i \in 1..Len(q) : q[i] = floor

\* Array.findIndex on "f > floor": 1-based index of the first match, 0 for -1
findIndexGreater(q, floor) ==
    IF \E i \in 1..Len(q) : q[i] > floor
    THEN CHOOSE i \in 1..Len(q) : q[i] > floor /\ \A j \in 1..(i - 1) : ~(q[j] > floor)
    ELSE 0

findIndexLess(q, floor) ==
    IF \E i \in 1..Len(q) : q[i] < floor
    THEN CHOOSE i \in 1..Len(q) : q[i] < floor /\ \A j \in 1..(i - 1) : ~(q[j] < floor)
    ELSE 0

\* queue.splice(index, 0, floor) with a 1-based index
splice(q, index, floor) ==
    SubSeq(q, 1, index - 1) \o <<floor>> \o SubSeq(q, index, Len(q))

\* mutant of insertFloorInOptimalPosition: the DOWN branch looks for the first
\* greater entry, as the UP branch does
insertFloorInOptimalPositionDownAsUp(el, floor) ==
    IF el.direction \in {"UP", "DOWN"}
    THEN LET index == findIndexGreater(el.queue, floor)
         IN  IF index = 0
             THEN [el EXCEPT !.queue = Append(@, floor)]
             ELSE [el EXCEPT !.queue = splice(@, index, floor)]
    ELSE [el EXCEPT !.queue = Append(@, floor)]

insertFloorInOptimalPosition(el, floor) ==
    IF el.direction = "UP"
    THEN LET index == findIndexGreater(el.queue, floor)
         IN  IF index = 0
             THEN [el EXCEPT !.queue = Append(@, floor)]
             ELSE [el EXCEPT !.queue = splice(@, index, floor)]
    ELSE IF el.direction = "DOWN"
    THEN LET index == findIndexLess(el.queue, floor)
         IN  IF index = 0
             THEN [el EXCEPT !.queue = Append(@, floor)]
             ELSE [el EXCEPT !.queue = splice(@, index, floor)]
    ELSE [el EXCEPT !.queue = Append(@, floor)]

\* mutant of addFloorToQueue: the test `this.status === ElevatorStatus.IDLE` is
\* missing from the early return
addFloorToQueueAtFloorAnyStatus(el, floor) ==
    IF floor * PosScale = el.currentFloor
    THEN el
    ELSE IF ~includes(el.queue, floor) /\ el.targetFloor # <<floor>>
    THEN IF Len(el.queue) = 0
         THEN [el EXCEPT !.queue = Append(@, floor)]
         ELSE insertFloorInOptimalPosition(el, floor)
    ELSE el

\* mutant of addFloorToQueue: the early return for an IDLE elevator at the floor
\* is missing
addFloorToQueueNoEarlyReturn(el, floor) ==
    IF ~includes(el.queue, floor) /\ el.targetFloor # <<floor>>
    THEN IF Len(el.queue) = 0
         THEN [el EXCEPT !.queue = Append(@, floor)]
         ELSE insertFloorInOptimalPosition(el, floor)
    ELSE el

\* mutant of addFloorToQueue: the test `!this.queue.includes(floor)` is missing
addFloorToQueueNoIncludesCheck(el, floor) ==
    IF floor * PosScale = el.currentFloor /\ el.status = "IDLE"
    THEN el
    ELSE IF el.targetFloor # <<floor>>
    THEN IF Len(el.queue) = 0
         THEN [el EXCEPT !.queue = Append(@, floor)]
         ELSE insertFloorInOptimalPosition(el, floor)
    ELSE el

\* mutant of addFloorToQueue: the test `floor !== this.targetFloor` is missing
addFloorToQueueNoTargetCheck(el, floor) ==
    IF floor * PosScale = el.currentFloor /\ el.status = "IDLE"
    THEN el
    ELSE IF ~includes(el.queue, floor)
    THEN IF Len(el.queue) = 0
         THEN [el EXCEPT !.queue = Append(@, floor)]
         ELSE insertFloorInOptimalPosition(el, floor)
    ELSE el

addFloorToQueue(el, floor) ==
    IF floor * PosScale = el.currentFloor /\ el.status = "IDLE"
    THEN el
    ELSE IF ~includes(el.queue, floor) /\ el.targetFloor # <<floor>>
    THEN IF Len(el.queue) = 0
         THEN [el EXCEPT !.queue = Append(@, floor)]
         ELSE insertFloorInOptimalPosition(el, floor)
    ELSE el

determineDirection(el) ==
    IF el.targetFloor = <<>>
    THEN [el EXCEPT !.direction = "NONE"]
    ELSE IF el.targetFloor[1] * PosScale > el.currentFloor
    THEN [el EXCEPT !.direction = "UP"]
    ELSE IF el.targetFloor[1] * PosScale < el.currentFloor
    THEN [el EXCEPT !.direction = "DOWN"]
    ELSE [el EXCEPT !.direction = "NONE"]

\* mutant of takeNextFloor: `queue.pop()` instead of `queue.shift()`
takeNextFloorFromEnd(el) ==
    LET taken == determineDirection(
                     [el EXCEPT !.targetFloor = <<el.queue[Len(el.queue)]>>,
                                !.queue = SubSeq(el.queue, 1, Len(el.queue) - 1)])
    IN  [taken EXCEPT !.status = IF taken.direction = "UP" THEN "MOVING_UP"
                                  ELSE "MOVING_DOWN"]

\* targetFloor = queue.shift(); determineDirection(); status = UP ? MOVING_UP : MOVING_DOWN
takeNextFloor(el) ==
    LET taken == determineDirection([el EXCEPT !.targetFloor = <<Head(el.queue)>>,
                                               !.queue = Tail(el.queue)])
    IN  [taken EXCEPT !.status = IF taken.direction = "UP" THEN "MOVING_UP"
                                  ELSE "MOVING_DOWN"]

handleIdle(el) ==
    IF Len(el.queue) > 0 THEN takeNextFloor(el) ELSE el

\* this.arrivalCallback(this.id, floor): the invocation is noted in `called`
arrivalCallback(el, floor) ==
    [el EXCEPT !.called = Append(@, [elevatorId |-> el.id, floor |-> floor])]

\* mutant of arriveAtFloor: `this.currentFloor = floor` is missing, the elevator
\* stays where the last move of handleMoving took it
arriveAtFloorNoSnap(el, floor) ==
    arrivalCallback([el EXCEPT !.currentFloor =
                                   IF el.direction = "UP"
                                   THEN @ + (elevatorSpeed * UPDATE_RATE * PosScale) \div 1000
                                   ELSE @ - (elevatorSpeed * UPDATE_RATE * PosScale) \div 1000,
                               !.targetFloor = <<>>,
                               !.status = "DOORS_OPENING",
                               !.doorOpen = FALSE,
                               !.timers = Append(@, timeout("doorsOpen", el.doorTime \div 4))],
                    floor)

\* mutant of arriveAtFloor: the arrival callback is not invoked
arriveAtFloorNoCallback(el, floor) ==
    [el EXCEPT !.currentFloor = floor * PosScale,
               !.targetFloor = <<>>,
               !.status = "DOORS_OPENING",
               !.doorOpen = FALSE,
               !.timers = Append(@, timeout("doorsOpen", el.doorTime \div 4))]

\* arriveAtFloor without `this.targetFloor = null`
arriveAtFloorKeepsTarget(el, floor) ==
    arrivalCallback([el EXCEPT !.currentFloor = floor * PosScale,
                               !.status = "DOORS_OPENING",
                               !.doorOpen = FALSE,
                               !.timers = Append(@, timeout("doorsOpen", el.doorTime \div 4))],
                    floor)

\* the first setTimeout of arriveAtFloor is scheduled at the arrival
arriveAtFloor(el, floor) ==
    arrivalCallback([el EXCEPT !.currentFloor = floor * PosScale,
                               !.targetFloor = <<>>,
                               !.status = "DOORS_OPENING",
                               !.doorOpen = FALSE,
                               !.timers = Append(@, timeout("doorsOpen", el.doorTime \div 4))],
                    floor)

handleMoving(el, deltaTime) ==
    IF el.targetFloor = <<>>
    THEN [el EXCEPT !.status = "IDLE"]
    ELSE LET floorsToMove == (elevatorSpeed * deltaTime * PosScale) \div 1000
             target == el.targetFloor[1]
         IN  IF el.direction = "UP"
             THEN IF el.currentFloor + floorsToMove >= target * PosScale
                  THEN arriveAtFloor(el, target)
                  ELSE [el EXCEPT !.currentFloor = @ + floorsToMove]
             ELSE IF el.direction = "DOWN"
             THEN IF el.currentFloor - floorsToMove <= target * PosScale
                  THEN arriveAtFloor(el, target)
                  ELSE [el EXCEPT !.currentFloor = @ - floorsToMove]
             ELSE el

\* mutant of update: ARRIVED is handled as IDLE, the next stop is taken at once
updateArrivedAsIdle(el, deltaTime) ==
    IF el.status \in {"IDLE", "ARRIVED"} THEN handleIdle(el)
    ELSE IF el.status \in {"MOVING_UP", "MOVING_DOWN"} THEN handleMoving(el, deltaTime)
    ELSE el

update(el, deltaTime) ==
    IF el.status = "IDLE" THEN handleIdle(el)
    ELSE IF el.status \in {"MOVING_UP", "MOVING_DOWN"} THEN handleMoving(el, deltaTime)
    ELSE el

(***************************************************************************)
(* The four nested setTimeout callbacks of arriveAtFloor.  Each callback   *)
(* acts on the elevator whatever its status is when it fires.              *)
(***************************************************************************)
\* mutant of onDoorsOpen: the timeouts are not nested, the next two are scheduled
\* together
onDoorsOpenSchedulesBoth(el) ==
    [el EXCEPT !.doorOpen = TRUE, !.status = "DOORS_OPEN",
               !.timers = Append(Append(@, timeout("doorsClosing", el.doorTime \div 2)),
                                 timeout("arrived", el.doorTime \div 4))]

\* mutant of onDoorsOpen: the first timer goes straight to DOORS_CLOSING
onDoorsOpenSkipsOpen(el) ==
    [el EXCEPT !.doorOpen = TRUE, !.status = "DOORS_CLOSING",
               !.timers = Append(@, timeout("arrived", el.doorTime \div 4))]

onDoorsOpen(el) ==
    [el EXCEPT !.doorOpen = TRUE, !.status = "DOORS_OPEN",
               !.timers = Append(@, timeout("doorsClosing", el.doorTime \div 2))]

onDoorsClosing(el) ==
    [el EXCEPT !.status = "DOORS_CLOSING",
               !.timers = Append(@, timeout("arrived", el.doorTime \div 4))]

\* mutant of onArrived: the dwell lasts this.doorTime instead of 2000 ms
onArrivedDwellsDoorTime(el) ==
    [el EXCEPT !.doorOpen = FALSE, !.status = "ARRIVED",
               !.timers = Append(@, timeout("dwell", el.doorTime))]

\* mutant of onArrived: `this.doorOpen = false` is missing
onArrivedLeavesDoorOpen(el) ==
    [el EXCEPT !.status = "ARRIVED",
               !.timers = Append(@, timeout("dwell", dwellTime))]

onArrived(el) ==
    [el EXCEPT !.doorOpen = FALSE, !.status = "ARRIVED",
               !.timers = Append(@, timeout("dwell", dwellTime))]

\* mutant of onDwell: the elevator makes its first move in the timer callback
onDwellMovesAtOnce(el) ==
    IF Len(el.queue) > 0
    THEN handleMoving(takeNextFloor(el), UPDATE_RATE)
    ELSE [el EXCEPT !.status = "IDLE", !.direction = "NONE"]

onDwell(el) ==
    IF Len(el.queue) > 0
    THEN takeNextFloor(el)
    ELSE [el EXCEPT !.status = "IDLE", !.direction = "NONE"]

removeAt(s, i) == SubSeq(s, 1, i - 1) \o SubSeq(s, i + 1, Len(s))

fireTimer(el, i) ==
    LET rest == [el EXCEPT !.timers = removeAt(@, i)]
        kind == el.timers[i].kind
    IN  IF kind = "doorsOpen" THEN onDoorsOpen(rest)
        ELSE IF kind = "doorsClosing" THEN onDoorsClosing(rest)
        ELSE IF kind = "arrived" THEN onArrived(rest)
        ELSE onDwell(rest)

getDistanceToFloor(el, floor) ==
    IF el.currentFloor >= floor * PosScale
    THEN el.currentFloor - floor * PosScale
    ELSE floor * PosScale - el.currentFloor

isMovingTowards(el, floor) ==
    \/ el.direction = "UP" /\ floor * PosScale > el.currentFloor
    \/ el.direction = "DOWN" /\ floor * PosScale < el.currentFloor

\* seconds to reach `floor`, in score units (seconds * ScoreScale)
getEstimatedTimeToFloor(el, floor) ==
    LET distance == getDistanceToFloor(el, floor)
        travelTime == (distance * ScoreScale) \div (PosScale * elevatorSpeed)
        stops == Cardinality({i \in 1..Len(el.queue) :
                     IF el.direction = "UP"
                     THEN el.queue[i] < floor /\ el.queue[i] * PosScale > el.currentFloor
                     ELSE IF el.direction = "DOWN"
                     THEN el.queue[i] > floor /\ el.queue[i] * PosScale < el.currentFloor
                     ELSE FALSE})
    IN  travelTime + (stops * el.doorTime * ScoreScale) \div 1000

(***************************************************************************)
(* ElevatorController                                                      *)
(***************************************************************************)
\* the values Math.random() * 0.5 is sampled at, in score units: [0, ScoreScale/2)
TieBreakers == {0, ScoreScale \div 4, ScoreScale \div 2 - 1}

\* one draw per IDLE elevator scored; a non-IDLE elevator draws nothing
TieBreakerDraws(els) ==
    {tb \in [DOMAIN els -> TieBreakers] :
        \A e \in DOMAIN els : els[e].status # "IDLE" => tb[e] = 0}

currentWorkload(el) ==
    (IF el.targetFloor # <<>> THEN 1 ELSE 0) + Len(el.queue)

\* mutant of calculateElevatorScore: `score += 1000` is missing
calculateElevatorScoreNoBasePenalty(el, floor, direction, tieBreaker) ==
    IF el.status = "IDLE"
    THEN (getDistanceToFloor(el, floor) * ScoreScale) \div PosScale
         + currentWorkload(el) * 3 * ScoreScale
         + tieBreaker
    ELSE (getDistanceToFloor(el, floor) * 10 * ScoreScale) \div PosScale
         - (IF direction # "undefined" /\ el.direction = direction
               /\ isMovingTowards(el, floor)
            THEN 300 * ScoreScale ELSE 0)
         + (IF ~isMovingTowards(el, floor) /\ el.direction # "NONE"
            THEN 200 * ScoreScale ELSE 0)
         + currentWorkload(el) * 100 * ScoreScale
         + getEstimatedTimeToFloor(el, floor) * 2

\* mutant of calculateElevatorScore: every elevator that is not moving is scored
\* as an IDLE one
calculateElevatorScoreDoorsAsIdle(el, floor, direction, tieBreaker) ==
    IF el.status \notin {"MOVING_UP", "MOVING_DOWN"}
    THEN (getDistanceToFloor(el, floor) * ScoreScale) \div PosScale
         + currentWorkload(el) * 3 * ScoreScale
         + tieBreaker
    ELSE 1000 * ScoreScale
         + (getDistanceToFloor(el, floor) * 10 * ScoreScale) \div PosScale
         - (IF direction # "undefined" /\ el.direction = direction
               /\ isMovingTowards(el, floor)
            THEN 300 * ScoreScale ELSE 0)
         + (IF ~isMovingTowards(el, floor) /\ el.direction # "NONE"
            THEN 200 * ScoreScale ELSE 0)
         + currentWorkload(el) * 100 * ScoreScale
         + getEstimatedTimeToFloor(el, floor) * 2

\* the score with Math.random() * 5 as the tie-breaker of an IDLE elevator
calculateElevatorScoreWideTieBreaker(el, floor, direction, tieBreaker) ==
    IF el.status = "IDLE"
    THEN (getDistanceToFloor(el, floor) * ScoreScale) \div PosScale
         + currentWorkload(el) * 3 * ScoreScale
         + tieBreaker * 10
    ELSE 1000 * ScoreScale
         + (getDistanceToFloor(el, floor) * 10 * ScoreScale) \div PosScale
         - (IF direction # "undefined" /\ el.direction = direction
               /\ isMovingTowards(el, floor)
            THEN 300 * ScoreScale ELSE 0)
         + (IF ~isMovingTowards(el, floor) /\ el.direction # "NONE"
            THEN 200 * ScoreScale ELSE 0)
         + currentWorkload(el) * 100 * ScoreScale
         + getEstimatedTimeToFloor(el, floor) * 2

\* the score without the 200 added to an elevator that is moving away
calculateElevatorScoreNoAwayPenalty(el, floor, direction, tieBreaker) ==
    IF el.status = "IDLE"
    THEN (getDistanceToFloor(el, floor) * ScoreScale) \div PosScale
         + currentWorkload(el) * 3 * ScoreScale
         + tieBreaker
    ELSE 1000 * ScoreScale
         + (getDistanceToFloor(el, floor) * 10 * ScoreScale) \div PosScale
         - (IF direction # "undefined" /\ el.direction = direction
               /\ isMovingTowards(el, floor)
            THEN 300 * ScoreScale ELSE 0)
         + currentWorkload(el) * 100 * ScoreScale
         + getEstimatedTimeToFloor(el, floor) * 2

\* the score in units of 1/ScoreScale; tieBreaker is the value of Math.random() * 0.5
calculateElevatorScore(el, floor, direction, tieBreaker) ==
    IF el.status = "IDLE"
    THEN (getDistanceToFloor(el, floor) * ScoreScale) \div PosScale
         + currentWorkload(el) * 3 * ScoreScale
         + tieBreaker
    ELSE 1000 * ScoreScale
         + (getDistanceToFloor(el, floor) * 10 * ScoreScale) \div PosScale
         - (IF direction # "undefined" /\ el.direction = direction
               /\ isMovingTowards(el, floor)
            THEN 300 * ScoreScale ELSE 0)
         + (IF ~isMovingTowards(el, floor) /\ el.direction # "NONE"
            THEN 200 * ScoreScale ELSE 0)
         + currentWorkload(el) * 100 * ScoreScale
         + getEstimatedTimeToFloor(el, floor) * 2

\* the for-loop with score <= bestScore: the last of equal scores wins
RECURSIVE findBestFromLastWins(_, _, _, _, _, _, _)
findBestFromLastWins(els, floor, direction, tb, i, bestElevator, bestScore) ==
    IF i \notin DOMAIN els
    THEN bestElevator
    ELSE LET score == calculateElevatorScore(els[i], floor, direction, tb[i])
         IN  IF bestScore = <<>> \/ score <= bestScore[1]
             THEN findBestFromLastWins(els, floor, direction, tb, i + 1, <<i>>, <<score>>)
             ELSE findBestFromLastWins(els, floor, direction, tb, i + 1, bestElevator, bestScore)

\* the for-loop of findBestElevator from fleet index i on; bestScore <<>> is Infinity
RECURSIVE findBestFrom(_, _, _, _, _, _, _)
findBestFrom(els, floor, direction, tb, i, bestElevator, bestScore) ==
    IF i \notin DOMAIN els
    THEN bestElevator
    ELSE LET score == calculateElevatorScore(els[i], floor, direction, tb[i])
         IN  IF bestScore = <<>> \/ score < bestScore[1]
             THEN findBestFrom(els, floor, direction, tb, i + 1, <<i>>, <<score>>)
             ELSE findBestFrom(els, floor, direction, tb, i + 1, bestElevator, bestScore)

\* <<>> for null, <<i>> for the elevator at fleet index i
findBestElevator(els, floor, direction, tb) ==
    findBestFrom(els, floor, direction, tb, 0, <<>>, <<>>)

\* Math.round of a position: the nearest floor, halves rounding up
round(position) == (2 * position + PosScale) \div (2 * PosScale)

\* mutant of requestMatches: DOORS_OPENING is not accepted
requestMatchesOpenOnly(els, request) ==
    /\ request.elevatorId \in DOMAIN els
    /\ round(els[request.elevatorId].currentFloor) = request.floor
    /\ els[request.elevatorId].status = "DOORS_OPEN"

requestMatches(els, request) ==
    /\ request.elevatorId \in DOMAIN els
    /\ round(els[request.elevatorId].currentFloor) = request.floor
    /\ els[request.elevatorId].status \in {"DOORS_OPEN", "DOORS_OPENING"}

\* mutant of pushArrival: `shift()` replaced by `pop()`, the newest record goes
pushArrivalDropsNewest(recent, request, arrivalTime) ==
    LET pushed == Append(recent, [elevatorId |-> request.elevatorId,
                                  floor |-> request.floor,
                                  arrivalTime |-> arrivalTime,
                                  requestTime |-> request.timestamp,
                                  waitTime |-> arrivalTime - request.timestamp])
    IN  IF Len(pushed) > MaxRecentArrivals
        THEN SubSeq(pushed, 1, Len(pushed) - 1) ELSE pushed

pushArrival(recent, request, arrivalTime) ==
    LET pushed == Append(recent, [elevatorId |-> request.elevatorId,
                                  floor |-> request.floor,
                                  arrivalTime |-> arrivalTime,
                                  requestTime |-> request.timestamp,
                                  waitTime |-> arrivalTime - request.timestamp])
    IN  IF Len(pushed) > MaxRecentArrivals THEN Tail(pushed) ELSE pushed

\* the scan of checkArrivals over the entries of pendingRequests, in insertion
\* order, from entry i on: [pending |-> entries kept, recent |-> recentArrivals].
\* Date.now() is read once for every request completed: `reads` holds what the
\* reads still to come return, in order
RECURSIVE checkArrivalsFrom(_, _, _, _, _, _)
checkArrivalsFrom(els, pending, i, kept, recent, reads) ==
    IF i > Len(pending)
    THEN [pending |-> kept, recent |-> recent]
    ELSE IF requestMatches(els, pending[i])
    THEN checkArrivalsFrom(els, pending, i + 1, kept,
                           pushArrival(recent, pending[i], Head(reads)), Tail(reads))
    ELSE checkArrivalsFrom(els, pending, i + 1, Append(kept, pending[i]), recent, reads)

checkArrivals(els, pending, recent, reads) ==
    checkArrivalsFrom(els, pending, 1, <<>>, recent, reads)

\* the requests checkArrivals completes on the fleet `els`
arrivals(els, pending) == SelectSeq(pending, LAMBDA request : requestMatches(els, request))

\* what the reads of Date.now() of one checkArrivals may return
DateNowReads(els, pending) == [1..Len(arrivals(els, pending)) -> DateNow]

getSystemState(els) == [i \in DOMAIN els |-> getState(els[i])]

(***************************************************************************)
(* The state after `new ElevatorController(config)`.                       *)
(***************************************************************************)
\* lastOp: the last callback run, with the elevator and floor it was about
Constructed == [op |-> "new", id |-> -1, floor |-> -1]

\* mutant of NewController: the elevators are created one floor up
\* (`new Elevator(i, 1, ...)`)
NewControllerAtFloorOne(n, floors) ==
    /\ numElevators = n
    /\ numFloors = floors
    /\ elevators = [i \in 0..(n - 1) |-> NewElevator(i, 1)]
    /\ pendingRequests = <<>>
    /\ recentArrivals = <<>>
    /\ now = 0
    /\ nextTick = 0
    /\ updateInterval = <<UPDATE_RATE>>
    /\ issued = 0
    /\ lastOp = Constructed
    /\ notified = <<>>

NewController(n, floors) ==
    /\ numElevators = n
    /\ numFloors = floors
    /\ elevators = [i \in 0..(n - 1) |-> NewElevator(i, 0)]
    /\ pendingRequests = <<>>
    /\ recentArrivals = <<>>
    /\ now = 0
    /\ nextTick = 0
    /\ updateInterval = <<UPDATE_RATE>>
    /\ issued = 0
    /\ lastOp = Constructed
    /\ notified = <<>>

Init == \E n \in 0..MaxElevators : NewController(n, NumFloors)

\* arguments handed to the controller.  callElevator: every floor of the building
\* and the first floor above it.  selectFloor: every floor and the first floor
\* beyond each end; every fleet index and the first index that is no elevator.
InputFloors == 0..numFloors
SelectFloors == (-1)..numFloors
InputIds == 0..numElevators

QueuesWithinBound(els) == \A e \in DOMAIN els : Len(els[e].queue) <= MaxQueue

(***************************************************************************)
(* setInterval callback of startUpdateLoop: every elevator is updated, in  *)
(* fleet order, then checkArrivals runs, all in one callback.              *)
(***************************************************************************)
\* the invocations noted by the elevators of the fleet from index i on
RECURSIVE callsFrom(_, _)
callsFrom(els, i) ==
    IF i \notin DOMAIN els THEN <<>> ELSE els[i].called \o callsFrom(els, i + 1)

\* the callback with checkArrivals run before the elevators are updated
updateLoopChecksFirst(els, reads) ==
    LET updated == [e \in DOMAIN els |-> update(els[e], UPDATE_RATE)]
        checked == checkArrivals(els, pendingRequests, recentArrivals,
                                 reads \o [k \in 1..Len(pendingRequests) |-> 0])
    IN  /\ elevators' = [e \in DOMAIN els |-> [updated[e] EXCEPT !.called = <<>>]]
        /\ notified' = callsFrom(updated, 0)
        /\ pendingRequests' = checked.pending
        /\ recentArrivals' = checked.recent
        /\ lastOp' = [op |-> "tick", id |-> -1, floor |-> -1]

\* the fleet after elevator.update(UPDATE_RATE) on every elevator
updateAll(els) == [e \in DOMAIN els |-> update(els[e], UPDATE_RATE)]

\* the callback run on the fleet `els`; `reads` is what the reads of Date.now()
\* in checkArrivals return
updateLoop(els, reads) ==
    LET updated == updateAll(els)
        checked == checkArrivals(updated, pendingRequests, recentArrivals, reads)
    IN  /\ elevators' = [e \in DOMAIN els |-> [updated[e] EXCEPT !.called = <<>>]]
        /\ notified' = callsFrom(updated, 0)
        /\ pendingRequests' = checked.pending
        /\ recentArrivals' = checked.recent
        /\ lastOp' = [op |-> "tick", id |-> -1, floor |-> -1]

\* the interval callback runs, as long as the interval is not cleared
Tick ==
    /\ updateInterval # <<>>
    /\ \E reads \in DateNowReads(updateAll(elevators), pendingRequests) :
          updateLoop(elevators, reads)
    /\ UNCHANGED <<numElevators, numFloors, updateInterval, now, issued, nextTick>>

\* checkArrivals() called on its own, between two callbacks; a call that
\* completes no request leaves the state as it is
CheckArrivals ==
    IF arrivals(elevators, pendingRequests) # <<>>
    THEN /\ \E reads \in DateNowReads(elevators, pendingRequests) :
               LET checked == checkArrivals(elevators, pendingRequests, recentArrivals, reads)
               IN  /\ pendingRequests' = checked.pending
                   /\ recentArrivals' = checked.recent
         /\ lastOp' = [op |-> "checkArrivals", id |-> -1, floor |-> -1]
         /\ notified' = <<>>
         /\ UNCHANGED <<numElevators, numFloors, elevators, updateInterval, now, issued,
                        nextTick>>
    ELSE UNCHANGED vars

\* stopUpdateLoop(): the interval is cleared, the setTimeout callbacks stay; a
\* call after the interval was cleared leaves the state as it is
StopUpdateLoop ==
    IF updateInterval # <<>>
    THEN /\ updateInterval' = <<>>
         /\ lastOp' = [op |-> "stopUpdateLoop", id |-> -1, floor |-> -1]
         /\ notified' = <<>>
         /\ UNCHANGED <<numElevators, numFloors, elevators, pendingRequests, recentArrivals,
                        now, issued, nextTick>>
    ELSE UNCHANGED vars

\* one pending setTimeout callback of elevator e fires
Timer(e) ==
    /\ e \in DOMAIN elevators
    /\ \E i \in 1..Len(elevators[e].timers) :
           elevators' = [elevators EXCEPT ![e] = fireTimer(@, i)]
    /\ lastOp' = [op |-> "timer", id |-> e, floor |-> -1]
    /\ notified' = <<>>
    /\ UNCHANGED <<numElevators, numFloors, pendingRequests, recentArrivals,
                   updateInterval, now, issued, nextTick>>

\* mutant of callElevator: the request is recorded but the floor is not queued
callElevatorRecordsOnly(floor, direction, tb) ==
    LET bestElevator == findBestElevator(elevators, floor, direction, tb)
        requestId == issued
    IN  \E time \in DateNow :
        /\ issued' = issued + 1
        /\ IF bestElevator # <<>>
           THEN /\ elevators' = elevators
                /\ pendingRequests' = Append(pendingRequests,
                       [requestId |-> requestId,
                        floor |-> floor,
                        timestamp |-> time,
                        elevatorId |-> elevators[bestElevator[1]].id])
           ELSE UNCHANGED <<elevators, pendingRequests>>
        /\ lastOp' = [op |-> "callElevator",
                      id |-> IF bestElevator # <<>> THEN bestElevator[1] ELSE -1,
                      floor |-> floor]
        /\ notified' = <<>>
        /\ UNCHANGED <<numElevators, numFloors, recentArrivals, updateInterval, now, nextTick>>

\* mutant of callElevator: the request is recorded outside `if (bestElevator)`
callElevatorNoNullCheck(floor, direction, tb) ==
    LET bestElevator == findBestElevator(elevators, floor, direction, tb)
        requestId == issued
    IN  \E time \in DateNow :
        /\ issued' = issued + 1
        /\ elevators' = IF bestElevator # <<>>
                        THEN [elevators EXCEPT ![bestElevator[1]] =
                                  addFloorToQueue(@, floor)]
                        ELSE elevators
        /\ pendingRequests' = Append(pendingRequests,
               [requestId |-> requestId,
                floor |-> floor,
                timestamp |-> time,
                elevatorId |-> IF bestElevator # <<>>
                               THEN elevators[bestElevator[1]].id ELSE -1])
        /\ lastOp' = [op |-> "callElevator",
                      id |-> IF bestElevator # <<>> THEN bestElevator[1] ELSE -1,
                      floor |-> floor]
        /\ notified' = <<>>
        /\ UNCHANGED <<numElevators, numFloors, recentArrivals, updateInterval, now, nextTick>>

\* callElevator handing the floor to every elevator of the fleet
callElevatorToAll(floor, direction, tb) ==
    LET bestElevator == findBestElevator(elevators, floor, direction, tb)
        requestId == issued
    IN  \E time \in DateNow :
        /\ issued' = issued + 1
        /\ IF bestElevator # <<>>
           THEN /\ elevators' = [e \in DOMAIN elevators |-> addFloorToQueue(elevators[e], floor)]
                /\ pendingRequests' = Append(pendingRequests,
                       [requestId |-> requestId, floor |-> floor, timestamp |-> time,
                        elevatorId |-> elevators[bestElevator[1]].id])
           ELSE UNCHANGED <<elevators, pendingRequests>>
        /\ lastOp' = [op |-> "callElevator",
                      id |-> IF bestElevator # <<>> THEN bestElevator[1] ELSE -1,
                      floor |-> floor]
        /\ notified' = <<>>
        /\ UNCHANGED <<numElevators, numFloors, recentArrivals, updateInterval, now, nextTick>>

callElevator(floor, direction, tb) ==
    LET bestElevator == findBestElevator(elevators, floor, direction, tb)
        requestId == issued
    IN  \E time \in DateNow :
        /\ issued' = issued + 1
        /\ IF bestElevator # <<>>
           THEN /\ elevators' = [elevators EXCEPT ![bestElevator[1]] =
                                     addFloorToQueue(@, floor)]
                /\ pendingRequests' = Append(pendingRequests,
                       [requestId |-> requestId,
                        floor |-> floor,
                        timestamp |-> time,
                        elevatorId |-> elevators[bestElevator[1]].id])
           ELSE UNCHANGED <<elevators, pendingRequests>>
        /\ lastOp' = [op |-> "callElevator",
                      id |-> IF bestElevator # <<>> THEN bestElevator[1] ELSE -1,
                      floor |-> floor]
        /\ notified' = <<>>
        /\ UNCHANGED <<numElevators, numFloors, recentArrivals, updateInterval, now, nextTick>>

\* mutant of selectFloor: the test `floor < this.numFloors` is missing
selectFloorNoRangeCheck(elevatorId, floor) ==
    /\ IF elevatorId \in DOMAIN elevators /\ floor >= 0
       THEN elevators' = [elevators EXCEPT ![elevatorId] = addFloorToQueue(@, floor)]
       ELSE UNCHANGED elevators
    /\ lastOp' = [op |-> "selectFloor", id |-> elevatorId, floor |-> floor]
    /\ notified' = <<>>
    /\ UNCHANGED <<numElevators, numFloors, pendingRequests, recentArrivals,
                   updateInterval, now, issued, nextTick>>

selectFloor(elevatorId, floor) ==
    /\ IF elevatorId \in DOMAIN elevators /\ floor >= 0 /\ floor < numFloors
       THEN elevators' = [elevators EXCEPT ![elevatorId] = addFloorToQueue(@, floor)]
       ELSE UNCHANGED elevators
    /\ lastOp' = [op |-> "selectFloor", id |-> elevatorId, floor |-> floor]
    /\ notified' = <<>>
    /\ UNCHANGED <<numElevators, numFloors, pendingRequests, recentArrivals,
                   updateInterval, now, issued, nextTick>>

CallElevator ==
    /\ issued < MaxRequests
    /\ \E floor \in InputFloors, direction \in CallDirections,
          tb \in TieBreakerDraws(elevators) :
           callElevator(floor, direction, tb)
    /\ QueuesWithinBound(elevators')

SelectFloor ==
    /\ \E elevatorId \in InputIds, floor \in SelectFloors :
           selectFloor(elevatorId, floor)
    /\ QueuesWithinBound(elevators')

Next ==
    \/ Tick
    \/ \E e \in 0..(MaxElevators - 1) : Timer(e)
    \/ CallElevator
    \/ SelectFloor
    \/ CheckArrivals
    \/ StopUpdateLoop

Spec == Init /\ [][Next]_vars

\* setInterval and setTimeout callbacks always run in the end: the update loop
\* keeps ticking until it is stopped and every scheduled timer fires
FairSpec ==
    /\ Init /\ [][Next]_vars
    /\ WF_vars(Tick)
    /\ \A e \in 0..(MaxElevators - 1) : WF_vars(Timer(e))

(***************************************************************************)
(* Scoring on its own: a fleet of one IDLE and one busy elevator in a tall  *)
(* building, each in a state a run of the controller leaves an elevator    *)
(* in, and one callElevator on it.                                         *)
(***************************************************************************)
\* LongQueue stops put in the queue of an IDLE elevator since the last tick
LongQueueStops == [k \in 1..LongQueue |-> k + 3]

IdleElevators(id) ==
    {[NewElevator(id, p) EXCEPT !.queue = q] :
        p \in {0, 2}, q \in {<<>>, <<3>>, LongQueueStops}}

DoorPhases ==
    {[status |-> "DOORS_OPENING", doorOpen |-> FALSE, timers |-> <<timeout("doorsOpen", doorTime \div 4)>>],
     [status |-> "DOORS_OPEN", doorOpen |-> TRUE, timers |-> <<timeout("doorsClosing", doorTime \div 2)>>],
     [status |-> "DOORS_CLOSING", doorOpen |-> TRUE, timers |-> <<timeout("arrived", doorTime \div 4)>>],
     [status |-> "ARRIVED", doorOpen |-> FALSE, timers |-> <<timeout("dwell", dwellTime)>>]}

\* after an arrival: at a floor, the direction still that of the trip
AtDoorElevators(id) ==
    {[NewElevator(id, p) EXCEPT !.status = ph.status, !.doorOpen = ph.doorOpen,
                                !.timers = ph.timers, !.direction = d, !.queue = q] :
        p \in {1, 2, FarFloor - 1}, ph \in DoorPhases, d \in {"UP", "DOWN"},
        q \in {<<>>, <<3>>}}

\* one tick into a trip from floor 0 up to 2, or from floor 3 down to 1
MovingElevators(id) ==
    {[NewElevator(id, 0) EXCEPT !.status = "MOVING_UP", !.direction = "UP",
                                !.targetFloor = <<2>>, !.queue = q,
                                !.currentFloor = elevatorSpeed] :
        q \in {<<>>, <<3>>}}
    \cup
    {[NewElevator(id, 3) EXCEPT !.status = "MOVING_DOWN", !.direction = "DOWN",
                                !.targetFloor = <<1>>, !.queue = q,
                                !.currentFloor = @ - elevatorSpeed] :
        q \in {<<>>, <<0>>}}

\* after the dwell timer took the elevator's own floor as destination
StalledElevators(id) ==
    {[NewElevator(id, 1) EXCEPT !.status = "MOVING_DOWN", !.direction = "NONE",
                                !.targetFloor = <<1>>]}

BusyElevators(id) ==
    AtDoorElevators(id) \cup MovingElevators(id) \cup StalledElevators(id)

ScoreFleets ==
    {[i \in 0..1 |-> IF i = 0 THEN idle ELSE busy] :
        idle \in IdleElevators(0), busy \in BusyElevators(1)}
    \cup
    {[i \in 0..1 |-> IF i = 0 THEN busy ELSE idle] :
        busy \in BusyElevators(0), idle \in IdleElevators(1)}

ScoreFloors == {0, 1, 2, 3, FarFloor - 1, FarFloor}

ScoreInit ==
    /\ numElevators = 2
    /\ numFloors = FarFloor + 1
    /\ elevators \in ScoreFleets
    /\ pendingRequests = <<>>
    /\ recentArrivals = <<>>
    /\ now = 0
    /\ nextTick = 0
    /\ updateInterval = <<UPDATE_RATE>>
    /\ issued = 0
    /\ lastOp = Constructed
    /\ notified = <<>>

ScoreCall ==
    /\ issued = 0
    /\ \E floor \in ScoreFloors, direction \in CallDirections,
          tb \in TieBreakerDraws(elevators) :
           callElevator(floor, direction, tb)

ScoreNext == ScoreCall

ScoreSpec == ScoreInit /\ [][ScoreNext]_vars

(***************************************************************************)
(* A controller that has been running: one elevator has served k calls one *)
(* after the other, to floor 1 and floor 0 in turn, and is IDLE again;     *)
(* recentArrivals holds the k records.  A burst of calls follows, several  *)
(* of them pending at a time.                                              *)
(***************************************************************************)
EarlierArrivals(k) ==
    [i \in 1..k |-> [elevatorId |-> 0,
                     floor |-> i % 2,
                     arrivalTime |-> i,
                     requestTime |-> i - 1,
                     waitTime |-> 1]]

ArrivalsInit ==
    \E k \in {MaxRecentArrivals - 1, MaxRecentArrivals} :
        /\ numElevators = 1
        /\ numFloors = NumFloors
        /\ elevators = [i \in 0..0 |-> NewElevator(i, k % 2)]
        /\ pendingRequests = <<>>
        /\ recentArrivals = EarlierArrivals(k)
        /\ now = 0
        /\ nextTick = 0
        /\ updateInterval = <<UPDATE_RATE>>
        /\ issued = k
        /\ lastOp = [op |-> "timer", id |-> 0, floor |-> -1]
        /\ notified = <<>>

ArrivalsCall ==
    /\ issued < MaxRecentArrivals + MaxBurst
    /\ \E floor \in InputFloors, direction \in CallDirections,
          tb \in TieBreakerDraws(elevators) :
           callElevator(floor, direction, tb)
    /\ QueuesWithinBound(elevators')

ArrivalsNext ==
    \/ Tick
    \/ Timer(0)
    \/ ArrivalsCall
    \/ CheckArrivals
    \/ StopUpdateLoop

ArrivalsSpec == ArrivalsInit /\ [][ArrivalsNext]_vars

(***************************************************************************)
(* addFloorToQueue on its own: one elevator with a heading and an empty    *)
(* queue, on its way or at a floor with its doors cycling, and floors      *)
(* selected on it one after the other while nothing else runs.             *)
(***************************************************************************)
\* one tick into a trip to the middle floor, from the bottom or from the top
SortMoving ==
    {[NewElevator(0, 0) EXCEPT !.status = "MOVING_UP", !.direction = "UP",
                               !.targetFloor = <<SortFloors \div 2>>,
                               !.currentFloor =
                                   (elevatorSpeed * UPDATE_RATE * PosScale) \div 1000],
     [NewElevator(0, SortFloors - 1) EXCEPT
                               !.status = "MOVING_DOWN", !.direction = "DOWN",
                               !.targetFloor = <<SortFloors \div 2>>,
                               !.currentFloor =
                                   @ - (elevatorSpeed * UPDATE_RATE * PosScale) \div 1000]}

\* arrived at the middle floor, the direction that of the trip
SortAtDoor ==
    {[NewElevator(0, SortFloors \div 2) EXCEPT
          !.status = ph.status, !.doorOpen = ph.doorOpen, !.timers = ph.timers,
          !.direction = d] :
        ph \in DoorPhases, d \in {"UP", "DOWN"}}

SortInit ==
    /\ numElevators = 1
    /\ numFloors = SortFloors
    /\ \E el \in SortMoving \cup SortAtDoor : elevators = [i \in 0..0 |-> el]
    /\ pendingRequests = <<>>
    /\ recentArrivals = <<>>
    /\ now = 0
    /\ nextTick = 0
    /\ updateInterval = <<UPDATE_RATE>>
    /\ issued = 0
    /\ lastOp = [op |-> "tick", id |-> -1, floor |-> -1]
    /\ notified = <<>>

SortSelect ==
    \E floor \in 0..(numFloors - 1) : selectFloor(0, floor)

SortNext == SortSelect

SortSpec == SortInit /\ [][SortNext]_vars

(***************************************************************************)
(* The door and dwell sequence in time.  The elevator has just arrived and *)
(* `now` is the time of the event loop in milliseconds counted from the    *)
(* arrival, at the callback that ran last.  A callback never runs before   *)
(* it is due and may run late.  A setTimeout callback is due when its      *)
(* delay has gone by since the callback that set it ran; the interval      *)
(* callback is due UPDATE_RATE ms after its last run, so that its lateness *)
(* adds up.  Of the pending callbacks the one that is due first runs next, *)
(* any of them when they are due together.  Floors are selected and the    *)
(* loop is stopped at any moment; the setTimeout callbacks run on after    *)
(* the loop is stopped.                                                    *)
(***************************************************************************)
\* the door-cycle durations the elevator is constructed with
DoorTimes == {doorTime \div 2, doorTime}

\* a callback runs on time or MaxLate ms late
MaxLate == 5

Lateness == {0, MaxLate}

TimedHorizon == doorTime + dwellTime + 2 * UPDATE_RATE

ageTimers(el, dt) ==
    [el EXCEPT !.timers = [i \in DOMAIN @ |-> [@[i] EXCEPT !.elapsed = @ + dt]]]

\* the milliseconds until the callback is due, negative when it is overdue
remaining(timer) == timer.delay - timer.elapsed

\* the time at which a callback due at `due` runs when it is `late` ms late
runsAt(due, late) == (IF now > due THEN now ELSE due) + late

\* at the end of a trip up from floor 0 or down from the top floor
JustArrived ==
    {[NewElevator(0, f) EXCEPT !.status = "DOORS_OPENING", !.direction = d,
                               !.doorTime = dt,
                               !.timers = <<timeout("doorsOpen", dt \div 4)>>] :
        f \in 1..(NumFloors - 2), d \in {"UP", "DOWN"}, dt \in DoorTimes}

\* the interval callback has just run, at time 0, and made the arrival
TimedInit ==
    /\ numElevators = 1
    /\ numFloors = NumFloors
    /\ \E el \in JustArrived : elevators = [i \in 0..0 |-> el]
    /\ pendingRequests = <<>>
    /\ recentArrivals = <<>>
    /\ now = 0
    /\ nextTick = UPDATE_RATE
    /\ updateInterval = <<UPDATE_RATE>>
    /\ issued = 0
    /\ lastOp = [op |-> "tick", id |-> -1, floor |-> -1]
    /\ notified = <<[elevatorId |-> 0, floor |-> round(elevators[0].currentFloor)]>>

\* the interval callback runs, on time or late, when no setTimeout callback is
\* due before it, and is due again UPDATE_RATE ms after this run
TimedTick ==
    /\ updateInterval # <<>>
    /\ \A e \in DOMAIN elevators : \A i \in 1..Len(elevators[e].timers) :
          now + remaining(elevators[e].timers[i]) >= nextTick
    /\ \E late \in Lateness :
          LET at == runsAt(nextTick, late)
              aged == [e \in DOMAIN elevators |-> ageTimers(elevators[e], at - now)]
          IN  /\ at <= TimedHorizon
              /\ \E reads \in DateNowReads(updateAll(aged), pendingRequests) :
                     updateLoop(aged, reads)
              /\ now' = at
              /\ nextTick' = at + UPDATE_RATE
    /\ UNCHANGED <<numElevators, numFloors, updateInterval, issued>>

\* a setTimeout callback of elevator e runs, on time or late, when neither the
\* interval callback, if the interval is still set, nor another setTimeout
\* callback is due before it; the setTimeout it makes starts at this run
TimedTimer(e) ==
    /\ e \in DOMAIN elevators
    /\ \E i \in 1..Len(elevators[e].timers), late \in Lateness :
          LET at == runsAt(now + remaining(elevators[e].timers[i]), late)
          IN  /\ at <= TimedHorizon
              /\ updateInterval # <<>> =>
                     now + remaining(elevators[e].timers[i]) <= nextTick
              /\ \A d \in DOMAIN elevators : \A j \in 1..Len(elevators[d].timers) :
                    remaining(elevators[d].timers[j]) >= remaining(elevators[e].timers[i])
              /\ elevators' = [d \in DOMAIN elevators |->
                                  IF d = e THEN fireTimer(ageTimers(elevators[d], at - now), i)
                                  ELSE ageTimers(elevators[d], at - now)]
              /\ now' = at
    /\ lastOp' = [op |-> "timer", id |-> e, floor |-> -1]
    /\ notified' = <<>>
    /\ UNCHANGED <<numElevators, numFloors, pendingRequests, recentArrivals,
                   updateInterval, nextTick, issued>>

\* a passenger of the elevator selects one of the floors of the building
TimedSelect ==
    /\ \E floor \in 0..(numFloors - 1) : selectFloor(0, floor)
    /\ QueuesWithinBound(elevators')

TimedNext ==
    \/ TimedTick
    \/ TimedTimer(0)
    \/ TimedSelect
    \/ StopUpdateLoop

TimedSpec == TimedInit /\ [][TimedNext]_vars

(***************************************************************************)
(* A fleet of FleetSize elevators, idle or under way, some of them alike,  *)
(* that receives a car call and up to FleetSize hall calls before the      *)
(* first tick: the selection among several elevators, equal scores         *)
(* included, and what a command changes in the fleet.                      *)
(***************************************************************************)
FleetElevators(id) ==
    {NewElevator(id, 0), NewElevator(id, 2)}
    \cup {el \in MovingElevators(id) : el.queue # <<>>}
    \cup {el \in AtDoorElevators(id) :
              el.currentFloor = PosScale /\ el.status = "DOORS_OPEN"
              /\ el.direction = "UP" /\ el.queue = <<>>}
    \cup StalledElevators(id)

Fleets(n) ==
    {fleet \in [0..(n - 1) -> UNION {FleetElevators(id) : id \in 0..(n - 1)}] :
        \A i \in DOMAIN fleet : fleet[i].id = i}

\* no elevators at all, or FleetSize of them
FleetInit ==
    /\ numElevators \in {0, FleetSize}
    /\ numFloors = FleetFloors
    /\ elevators \in Fleets(numElevators)
    /\ pendingRequests = <<>>
    /\ recentArrivals = <<>>
    /\ now = 0
    /\ nextTick = 0
    /\ updateInterval = <<UPDATE_RATE>>
    /\ issued = 0
    /\ lastOp = Constructed
    /\ notified = <<>>

FleetCall ==
    /\ issued < FleetSize
    /\ \E floor \in InputFloors, direction \in CallDirections,
          tb \in TieBreakerDraws(elevators) :
           callElevator(floor, direction, tb)

\* a car call, made before the hall calls
FleetSelect ==
    /\ lastOp = Constructed
    /\ \E elevatorId \in InputIds, floor \in SelectFloors :
           selectFloor(elevatorId, floor)

FleetNext ==
    \/ FleetCall
    \/ FleetSelect

FleetSpec == FleetInit /\ [][FleetNext]_vars

(***************************************************************************)
(* Properties                                                              *)
(***************************************************************************)
Moving == {"MOVING_UP", "MOVING_DOWN"}

noDuplicates(q) == \A i, j \in 1..Len(q) : q[i] = q[j] => i = j

nonDecreasing(q) == \A i \in 1..(Len(q) - 1) : q[i] <= q[i + 1]

nonIncreasing(q) == \A i \in 1..(Len(q) - 1) : q[i] >= q[i + 1]

floorInRange(floor) == floor >= 0 /\ floor < numFloors

\* C1: in every reachable state each floor appears at most once in an elevator's
\* queue, and the elevator's targetFloor is not an element of its queue.
C1_QueueHasNoDuplicates ==
    \A e \in DOMAIN elevators :
        /\ noDuplicates(elevators[e].queue)
        /\ elevators[e].targetFloor # <<>>
               => ~includes(elevators[e].queue, elevators[e].targetFloor[1])

\* C1 witness: a command has just asked for the floor the elevator is travelling
\* to, while other stops are queued.
C1_Witness ==
    /\ lastOp.op \in {"selectFloor", "callElevator"}
    /\ lastOp.id \in DOMAIN elevators
    /\ elevators[lastOp.id].targetFloor = <<lastOp.floor>>
    /\ Len(elevators[lastOp.id].queue) >= 2

\* C2: in every reachable state an elevator whose direction is UP has a
\* non-decreasing queue and one whose direction is DOWN a non-increasing queue.
C2_QueueOrderedByDirection ==
    \A e \in DOMAIN elevators :
        /\ elevators[e].direction = "UP" => nonDecreasing(elevators[e].queue)
        /\ elevators[e].direction = "DOWN" => nonIncreasing(elevators[e].queue)

\* one step of elevator e keeps to the door sequence
PhaseStep(e) ==
    LET from == elevators[e].status
        to == elevators'[e].status
    IN  /\ from = "DOORS_OPENING" => to \in {"DOORS_OPENING", "DOORS_OPEN"}
        /\ from = "DOORS_OPEN" => to \in {"DOORS_OPEN", "DOORS_CLOSING"}
        /\ from = "DOORS_CLOSING" => to \in {"DOORS_CLOSING", "ARRIVED"}
        /\ from = "ARRIVED" => to \in {"ARRIVED", "IDLE"} \cup Moving
        /\ (to = "DOORS_OPENING" /\ from # to) => from \in Moving
        /\ (to = "DOORS_OPEN" /\ from # to) => from = "DOORS_OPENING"
        /\ (to = "DOORS_CLOSING" /\ from # to) => from = "DOORS_OPEN"
        /\ (to = "ARRIVED" /\ from # to) => from = "DOORS_CLOSING"

\* C3: after an arrival (MOVING -> DOORS_OPENING) the status of the elevator goes
\* through DOORS_OPENING, DOORS_OPEN, DOORS_CLOSING, ARRIVED in that order: every
\* step, whether a tick, a timer or a command, leaves the status where it is or
\* moves it to the next phase, and a phase is entered only from the one before it.
C3_DoorPhasesInOrder ==
    [][\A e \in DOMAIN elevators : PhaseStep(e)]_vars

\* C3 witness: an elevator has gone through the door sequence to ARRIVED while a
\* command put a stop in its queue.
C3_Witness ==
    \E e \in DOMAIN elevators :
        /\ elevators[e].status = "ARRIVED"
        /\ Len(elevators[e].queue) > 0
        /\ lastOp.op = "timer"

\* the update loop has been stopped: nothing ticks any more
stopped == updateInterval = <<>>

\* C4: as long as the update loop runs, an elevator that has taken floor t as
\* its destination (MOVING_UP or MOVING_DOWN with targetFloor t) eventually is
\* at t with status DOORS_OPENING, and an elevator in DOORS_OPENING eventually
\* finishes the door and dwell sequence.
C4_MovingEventuallyArrives ==
    \A e \in 0..(MaxElevators - 1), t \in 0..NumFloors :
        /\ (/\ e \in DOMAIN elevators
            /\ elevators[e].status \in Moving
            /\ elevators[e].targetFloor = <<t>>)
               ~> (\/ stopped
                   \/ /\ e \in DOMAIN elevators
                      /\ elevators[e].status = "DOORS_OPENING"
                      /\ elevators[e].currentFloor = t * PosScale)
        /\ (e \in DOMAIN elevators /\ elevators[e].status = "DOORS_OPENING")
               ~> (e \in DOMAIN elevators
                   /\ elevators[e].status \in {"IDLE"} \cup Moving)

isPending(requestId) ==
    \E i \in 1..Len(pendingRequests) : pendingRequests[i].requestId = requestId

\* C5: as long as the update loop runs, every entry callElevator puts into
\* pendingRequests is eventually removed.
C5_PendingEventuallyRemoved ==
    \A r \in 0..(MaxRequests - 1) : isPending(r) ~> (stopped \/ ~isPending(r))

\* C8: a callElevator step with a floor outside [0, numFloors) changes no
\* elevator and creates no pendingRequests entry.
C8_OutOfRangeCallIsNoOp ==
    [][(lastOp'.op = "callElevator" /\ ~(lastOp'.floor >= 0 /\ lastOp'.floor < numFloors))
          => (elevators' = elevators /\ pendingRequests' = pendingRequests)]_vars

\* C9: a selectFloor step with an elevatorId that is no fleet index, or with a
\* floor outside [0, numFloors), changes no elevator (queue, targetFloor, status,
\* direction, position, door, timers), nor pendingRequests, nor recentArrivals.
C9_InvalidSelectIsNoOp ==
    [][(lastOp'.op = "selectFloor"
           /\ (lastOp'.id \notin DOMAIN elevators
                  \/ ~(lastOp'.floor >= 0 /\ lastOp'.floor < numFloors)))
          => (/\ elevators' = elevators
              /\ pendingRequests' = pendingRequests
              /\ recentArrivals' = recentArrivals)]_vars

\* C9 witness: selectFloor has just been called with an out-of-range floor on an
\* elevator that is on the move with a stop queued.
C9_Witness ==
    /\ lastOp.op = "selectFloor"
    /\ lastOp.id \in DOMAIN elevators
    /\ ~floorInRange(lastOp.floor)
    /\ elevators[lastOp.id].status \in Moving
    /\ Len(elevators[lastOp.id].queue) > 0

\* C10: with a fleet of zero elevators pendingRequests and recentArrivals stay
\* empty and the fleet stays empty, whatever calls and ticks happen.
C10_EmptyFleetIsNoOp ==
    numElevators = 0
        => (pendingRequests = <<>> /\ recentArrivals = <<>> /\ DOMAIN elevators = {})

\* C10 witness: callElevator has been called MaxRequests times on an empty fleet.
C10_Witness ==
    numElevators = 0 /\ lastOp.op = "callElevator" /\ issued = MaxRequests

\* the score of an IDLE elevator without its tie-breaker, in position units:
\* distance + 3 * workload is below 1000 - 300
idleWithinPenalty(el, floor) ==
    getDistanceToFloor(el, floor) + 3 * currentWorkload(el) * PosScale < 700 * PosScale

isIdle(e) == elevators[e].status = "IDLE"

\* C6: whenever the fleet has an IDLE elevator, callElevator has selected an
\* IDLE elevator, whatever the distances, workloads, headings and preferred
\* direction are (no non-IDLE elevator scored at or below the IDLE ones).
C6_IdleAlwaysPreferred ==
    (lastOp.op = "callElevator" /\ \E i \in DOMAIN elevators : isIdle(i))
        => isIdle(lastOp.id)

\* C6 as amended: an IDLE elevator whose distance + 3 * workload is below 700
\* scores strictly below every non-IDLE elevator, for every floor, preferred
\* direction and tie-breaker, and when the fleet has such an IDLE elevator
\* callElevator has selected an IDLE elevator.
C6_IdlePreferredWithinPenalty ==
    /\ \A floor \in ScoreFloors, direction \in CallDirections, tb \in TieBreakers :
         \A i, b \in DOMAIN elevators :
            (isIdle(i) /\ ~isIdle(b) /\ idleWithinPenalty(elevators[i], floor))
               => calculateElevatorScore(elevators[i], floor, direction, tb)
                     < calculateElevatorScore(elevators[b], floor, direction, 0)
    /\ (/\ lastOp.op = "callElevator"
        /\ \E i \in DOMAIN elevators :
              isIdle(i) /\ idleWithinPenalty(elevators[i], lastOp.floor))
           => isIdle(lastOp.id)

\* C6 witness: callElevator chose the IDLE elevator although the busy one was
\* nearer to the floor, heading towards it in the preferred direction's way.
C6_Witness ==
    /\ lastOp.op = "callElevator"
    /\ isIdle(lastOp.id)
    /\ \E b \in DOMAIN elevators :
          /\ ~isIdle(b)
          /\ isMovingTowards(elevators[b], lastOp.floor)
          /\ getDistanceToFloor(elevators[b], lastOp.floor)
                < getDistanceToFloor(elevators[lastOp.id], lastOp.floor)

equidistant(i, b, floor) ==
    getDistanceToFloor(elevators[i], floor) = getDistanceToFloor(elevators[b], floor)

\* C7: of an IDLE and a busy elevator at the same distance from the floor,
\* callElevator has selected the IDLE one, for every tie-breaker, workload and
\* heading of the two.
C7_IdleWinsWhenEquidistant ==
    (/\ lastOp.op = "callElevator"
     /\ \E i, b \in DOMAIN elevators :
           isIdle(i) /\ ~isIdle(b) /\ equidistant(i, b, lastOp.floor))
        => isIdle(lastOp.id)

\* C7 as amended: of an IDLE elevator with fewer than 234 stops in its queue
\* (3 * workload below 700) and a busy elevator at the same distance from the
\* floor, the IDLE one scores strictly lower for every tie-breaker and preferred
\* direction, and callElevator has selected it.
C7_IdleWinsWhenEquidistantAndLightlyLoaded ==
    /\ \A floor \in ScoreFloors, direction \in CallDirections, tb \in TieBreakers :
         \A i, b \in DOMAIN elevators :
            (/\ isIdle(i) /\ ~isIdle(b) /\ equidistant(i, b, floor)
             /\ 3 * currentWorkload(elevators[i]) < 700)
               => calculateElevatorScore(elevators[i], floor, direction, tb)
                     < calculateElevatorScore(elevators[b], floor, direction, 0)
    /\ (/\ lastOp.op = "callElevator"
        /\ \E i, b \in DOMAIN elevators :
              /\ isIdle(i) /\ ~isIdle(b) /\ equidistant(i, b, lastOp.floor)
              /\ 3 * currentWorkload(elevators[i]) < 700)
           => isIdle(lastOp.id)

\* C7 witness: callElevator chose the IDLE elevator over a busy one at the same
\* distance that was heading towards the floor in the preferred direction.
C7_Witness ==
    /\ lastOp.op = "callElevator"
    /\ isIdle(lastOp.id)
    /\ \E b \in DOMAIN elevators :
          /\ ~isIdle(b)
          /\ isMovingTowards(elevators[b], lastOp.floor)
          /\ equidistant(lastOp.id, b, lastOp.floor)

\* the requests of pendingRequests that a step took out of it, in the order
\* they had in pendingRequests
completed ==
    LET gone(request) ==
            \A i \in 1..Len(pendingRequests') : pendingRequests'[i] # request
    IN  SelectSeq(pendingRequests, gone)

\* recentArrivals' is recentArrivals without its d oldest records, followed by
\* one record per request completed in the step, in scan order
ArrivalsStep(d) ==
    LET kept == Len(recentArrivals) - d
    IN  /\ Len(recentArrivals') = kept + Len(completed)
        /\ \A i \in 1..kept : recentArrivals'[i] = recentArrivals[i + d]
        /\ \A k \in 1..Len(completed) :
              /\ recentArrivals'[kept + k].elevatorId = completed[k].elevatorId
              /\ recentArrivals'[kept + k].floor = completed[k].floor
              /\ recentArrivals'[kept + k].requestTime = completed[k].timestamp
              /\ recentArrivals'[kept + k].arrivalTime \in DateNow
              /\ recentArrivals'[kept + k].waitTime =
                     recentArrivals'[kept + k].arrivalTime - completed[k].timestamp
        /\ d > 0 => Len(recentArrivals') = MaxRecentArrivals

\* C11: recentArrivals never holds more than 10 records, also when several
\* requests complete in one scan of checkArrivals; a scan appends the records of
\* the requests it completes in completion order (newest last), and records
\* leave recentArrivals only from the old end and only when it is full.
C11_RecentArrivalsBounded ==
    /\ [](Len(recentArrivals) <= MaxRecentArrivals)
    /\ [][\E d \in 0..Len(recentArrivals) : ArrivalsStep(d)]_vars

\* C11 witness: the tick of an arrival completed two requests for the floor on
\* a full recentArrivals: the two oldest records are gone and the two newest
\* are those of the floor, with the arrival times of two reads of the clock.
C11_Witness ==
    /\ lastOp.op = "tick"
    /\ notified # <<>>
    /\ Len(recentArrivals) = MaxRecentArrivals
    /\ recentArrivals[1].requestTime >= 2
    /\ recentArrivals[MaxRecentArrivals - 1].floor = notified[1].floor
    /\ recentArrivals[MaxRecentArrivals].floor = notified[1].floor
    /\ recentArrivals[MaxRecentArrivals - 1].arrivalTime
          # recentArrivals[MaxRecentArrivals].arrivalTime

\* the step takes elevator e from MOVING_UP / MOVING_DOWN to DOORS_OPENING
arrives(e) ==
    elevators[e].status \in Moving /\ elevators'[e].status = "DOORS_OPENING"

\* C12: the arrival callback is invoked exactly once for each MOVING ->
\* DOORS_OPENING transition, in the step that makes the transition, with the id of
\* the elevator and the destination it has just reached, and it is invoked by
\* nothing else: a step's invocations are those of its arrivals, in fleet order.
C12_CallbackOncePerArrival ==
    [][/\ Len(notified') = Cardinality({e \in DOMAIN elevators : arrives(e)})
       /\ \A e \in DOMAIN elevators :
             arrives(e) =>
                /\ Cardinality({i \in 1..Len(notified') :
                                    notified'[i].elevatorId = elevators[e].id}) = 1
                /\ \E i \in 1..Len(notified') :
                      /\ notified'[i] = [elevatorId |-> elevators[e].id,
                                         floor |-> elevators[e].targetFloor[1]]
                      /\ elevators'[e].currentFloor = notified'[i].floor * PosScale
       /\ \A i, j \in 1..Len(notified') :
             i < j => notified'[i].elevatorId < notified'[j].elevatorId]_vars

\* C12 witness: a tick has brought an elevator with a stop still queued to its
\* destination, and the callback was invoked for it.
C12_Witness ==
    /\ lastOp.op = "tick"
    /\ \E e \in DOMAIN elevators :
          /\ elevators[e].status = "DOORS_OPENING"
          /\ Len(elevators[e].timers) = 1
          /\ elevators[e].timers[1].kind = "doorsOpen"
          /\ Len(elevators[e].queue) > 0
          /\ notified = <<[elevatorId |-> elevators[e].id,
                           floor |-> round(elevators[e].currentFloor)]>>

\* elevator e is to stop at floor: it is in its queue or is its targetFloor
hasStop(e, floor) ==
    includes(elevators[e].queue, floor) \/ elevators[e].targetFloor = <<floor>>

\* elevator e stands IDLE at floor
idleAt(e, floor) ==
    elevators[e].status = "IDLE" /\ elevators[e].currentFloor = floor * PosScale

\* C13: after callElevator(level, direction) with level in [0, numFloors) on a
\* non-empty fleet, at least one elevator has level in its queue or as its
\* targetFloor.
C13_CalledFloorIsQueued ==
    (lastOp.op = "callElevator" /\ floorInRange(lastOp.floor) /\ numElevators > 0)
        => \E e \in DOMAIN elevators : hasStop(e, lastOp.floor)

\* C13 as amended: after such a callElevator the elevator selected has level in
\* its queue or as its targetFloor, or stands IDLE at level.
C13_CalledFloorIsQueuedUnlessIdleThere ==
    (lastOp.op = "callElevator" /\ floorInRange(lastOp.floor) /\ numElevators > 0)
        => /\ lastOp.id \in DOMAIN elevators
           /\ hasStop(lastOp.id, lastOp.floor) \/ idleAt(lastOp.id, lastOp.floor)

\* C13 witness: callElevator has just put the floor an elevator stands at, doors
\* in motion, into the queue of that elevator.
C13_Witness ==
    /\ lastOp.op = "callElevator"
    /\ floorInRange(lastOp.floor)
    /\ lastOp.id \in DOMAIN elevators
    /\ elevators[lastOp.id].status \in {"DOORS_OPENING", "DOORS_OPEN", "DOORS_CLOSING"}
    /\ elevators[lastOp.id].currentFloor = lastOp.floor * PosScale
    /\ includes(elevators[lastOp.id].queue, lastOp.floor)

\* C14: after selectFloor(elevatorId, floor) with a valid elevatorId and floor in
\* [0, numFloors), that elevator has floor in its queue or as its targetFloor.
C14_SelectedFloorIsQueued ==
    (lastOp.op = "selectFloor" /\ lastOp.id \in DOMAIN elevators
        /\ floorInRange(lastOp.floor))
        => hasStop(lastOp.id, lastOp.floor)

\* C14 as amended: after such a selectFloor that elevator has floor in its queue
\* or as its targetFloor, or stands IDLE at floor.
C14_SelectedFloorIsQueuedUnlessIdleThere ==
    (lastOp.op = "selectFloor" /\ lastOp.id \in DOMAIN elevators
        /\ floorInRange(lastOp.floor))
        => hasStop(lastOp.id, lastOp.floor) \/ idleAt(lastOp.id, lastOp.floor)

\* C14 witness: selectFloor has just put the floor the elevator stands at, in
\* its dwell after an arrival, into the queue of that elevator.
C14_Witness ==
    /\ lastOp.op = "selectFloor"
    /\ lastOp.id \in DOMAIN elevators
    /\ floorInRange(lastOp.floor)
    /\ elevators[lastOp.id].status = "ARRIVED"
    /\ elevators[lastOp.id].currentFloor = lastOp.floor * PosScale
    /\ includes(elevators[lastOp.id].queue, lastOp.floor)

\* C15: in every reachable state the doorOpen flag of an elevator is true if and
\* only if its status is DOORS_OPEN or DOORS_CLOSING; in particular it is never
\* true while the elevator is MOVING_UP, MOVING_DOWN or IDLE.
C15_DoorOpenIffOpenOrClosing ==
    \A e \in DOMAIN elevators :
        elevators[e].doorOpen <=> elevators[e].status \in {"DOORS_OPEN", "DOORS_CLOSING"}

\* C15 witness: the doors of an elevator are closing, doorOpen still true, and a
\* command has just queued a stop on it.
C15_Witness ==
    /\ lastOp.op \in {"selectFloor", "callElevator"}
    /\ lastOp.id \in DOMAIN elevators
    /\ elevators[lastOp.id].status = "DOORS_CLOSING"
    /\ elevators[lastOp.id].doorOpen
    /\ includes(elevators[lastOp.id].queue, lastOp.floor)

\* C16: in every reachable state an elevator whose status is not MOVING_UP or
\* MOVING_DOWN stands at an exact integer floor.
C16_AtIntegerFloorUnlessMoving ==
    \A e \in DOMAIN elevators :
        elevators[e].status \notin Moving => elevators[e].currentFloor % PosScale = 0

\* floorsToMove does not divide the distance between two floors: the last move
\* of a trip overshoots the destination
Overshoots == PosScale % ((elevatorSpeed * UPDATE_RATE * PosScale) \div 1000) # 0

\* C16 witness: an elevator whose last move went past its destination has arrived
\* at a floor other than the one it started from, and a tick has passed since.
C16_Witness ==
    /\ Overshoots
    /\ lastOp.op = "tick"
    /\ \E e \in DOMAIN elevators :
          /\ elevators[e].status = "DOORS_OPEN"
          /\ elevators[e].currentFloor >= PosScale

\* the step makes elevator e take t as its next destination
takes(e, t) ==
    elevators'[e].targetFloor = <<t>> /\ elevators[e].targetFloor # <<t>>

\* C17: an elevator never reverses its heading while a stop of its queue lies
\* ahead of it: when an elevator whose direction is UP takes its next destination
\* and some queue entry is above currentFloor, the destination taken is above
\* currentFloor, and symmetrically for DOWN.
C17_NoReversalWhileStopAhead ==
    [][\A e \in DOMAIN elevators : \A t \in 0..numFloors :
          takes(e, t) =>
             /\ (/\ elevators[e].direction = "UP"
                 /\ \E i \in 1..Len(elevators[e].queue) :
                       elevators[e].queue[i] * PosScale > elevators[e].currentFloor)
                    => t * PosScale > elevators[e].currentFloor
             /\ (/\ elevators[e].direction = "DOWN"
                 /\ \E i \in 1..Len(elevators[e].queue) :
                       elevators[e].queue[i] * PosScale < elevators[e].currentFloor)
                    => t * PosScale < elevators[e].currentFloor]_vars

elements(q) == {q[i] : i \in 1..Len(q)}

ascending(q) == \A i \in 1..(Len(q) - 1) : q[i] < q[i + 1]

descending(q) == \A i \in 1..(Len(q) - 1) : q[i] > q[i + 1]

\* C18: starting from an empty queue with the direction fixed at UP,
\* addFloorToQueue applied to distinct floors, none the targetFloor, yields those
\* floors in ascending order, and with the direction fixed at DOWN in descending
\* order: every call adds its floor (once, and never the targetFloor) and leaves
\* the queue sorted.
C18_InsertionKeepsQueueSorted ==
    /\ [](\A e \in DOMAIN elevators :
            /\ elevators[e].direction = "UP" => ascending(elevators[e].queue)
            /\ elevators[e].direction = "DOWN" => descending(elevators[e].queue))
    /\ [][\A e \in DOMAIN elevators :
            LET floor == lastOp'.floor
                fresh == {floor} \ {t \in {floor} : elevators[e].targetFloor = <<t>>}
            IN  /\ elements(elevators'[e].queue) = elements(elevators[e].queue) \cup fresh
                /\ Len(elevators'[e].queue)
                      = Cardinality(elements(elevators[e].queue) \cup fresh)]_vars

\* C18 witness: with the direction DOWN a floor has just been inserted between
\* two stops of a queue that now holds every floor but the targetFloor.
C18_Witness ==
    /\ lastOp.op = "selectFloor"
    /\ \E e \in DOMAIN elevators :
          /\ elevators[e].direction = "DOWN"
          /\ elevators[e].targetFloor # <<>>
          /\ Len(elevators[e].queue) = numFloors - 1
          /\ \E i \in 2..(Len(elevators[e].queue) - 1) :
                elevators[e].queue[i] = lastOp.floor

\* the entries of pendingRequests that a step took out of it
removed ==
    {pendingRequests[i] : i \in 1..Len(pendingRequests)}
        \ {pendingRequests'[i] : i \in 1..Len(pendingRequests')}

\* C19: of two pendingRequests entries for the same elevator and the same floor
\* that are both eligible in one scan of checkArrivals, only one is completed and
\* removed by that scan: no step removes two entries of one elevator and floor.
C19_OneMatchPerScan ==
    [][\A r1, r2 \in removed :
          (r1.elevatorId = r2.elevatorId /\ r1.floor = r2.floor) => r1 = r2]_vars

\* C20: a freshly constructed controller has every elevator at floor 0 with
\* status IDLE, direction NONE, targetFloor null, an empty queue and its doors
\* closed, and pendingRequests and recentArrivals empty.
C20_FreshControllerIsAtRest ==
    lastOp = Constructed =>
        /\ DOMAIN elevators = 0..(numElevators - 1)
        /\ \A e \in DOMAIN elevators :
              /\ elevators[e].id = e
              /\ elevators[e].currentFloor = 0
              /\ elevators[e].status = "IDLE"
              /\ elevators[e].direction = "NONE"
              /\ elevators[e].targetFloor = <<>>
              /\ elevators[e].queue = <<>>
              /\ ~elevators[e].doorOpen
              /\ elevators[e].timers = <<>>
        /\ pendingRequests = <<>>
        /\ recentArrivals = <<>>

\* C20 witness: a controller with a full fleet has just been constructed.
C20_Witness ==
    /\ lastOp = Constructed
    /\ numElevators = MaxElevators
    /\ numElevators > 0
    /\ numFloors = NumFloors

\* C21: after any sequence of commands, ticks and timer firings getSystemState
\* returns exactly numElevators elevator states, in fleet order, the one at
\* index i with id i: no elevator is added, removed or renumbered.
C21_FleetIsFixed ==
    LET state == getSystemState(elevators)
    IN  /\ DOMAIN state = 0..(numElevators - 1)
        /\ \A i \in DOMAIN state : state[i].id = i

\* C21 witness: a call has been served by the elevator, which has left the floor
\* of the call again on a second trip.
C21_Witness ==
    /\ numElevators = MaxElevators
    /\ Len(recentArrivals) > 0
    /\ \E i \in DOMAIN getSystemState(elevators) :
          /\ getSystemState(elevators)[i].status \in Moving
          /\ getSystemState(elevators)[i].id = i

\* the entry is matched by the state of its elevator after the step
matchedAfter(request) ==
    /\ request.elevatorId \in DOMAIN elevators
    /\ round(elevators'[request.elevatorId].currentFloor) = request.floor
    /\ elevators'[request.elevatorId].status \in {"DOORS_OPENING", "DOORS_OPEN"}

\* the record of a request completed at `time`
recordOf(request, time) ==
    [elevatorId |-> request.elevatorId,
     floor |-> request.floor,
     arrivalTime |-> time,
     requestTime |-> request.timestamp,
     waitTime |-> time - request.timestamp]

\* the pendingRequests entries the step's state matches, in order
matchedEntries == SelectSeq(pendingRequests, matchedAfter)

\* pendingRequests' is pendingRequests without the entries of `gone`, in order
RECURSIVE without(_, _)
without(pending, gone) ==
    IF pending = <<>> THEN <<>>
    ELSE IF Head(pending) \in gone THEN without(Tail(pending), gone)
    ELSE <<Head(pending)>> \o without(Tail(pending), gone)

\* recentArrivals' is recentArrivals without its d oldest records, which leave
\* only a full recentArrivals, followed by one record for each matched entry
appendsMatched(d) ==
    LET kept == Len(recentArrivals) - d
    IN  /\ Len(recentArrivals') = kept + Len(matchedEntries)
        /\ \A i \in 1..kept : recentArrivals'[i] = recentArrivals[i + d]
        /\ \A k \in 1..Len(matchedEntries) :
              \E time \in DateNow :
                  recentArrivals'[kept + k] = recordOf(matchedEntries[k], time)
        /\ d > 0 => Len(recentArrivals') = MaxRecentArrivals

\* C22: in each tick, after the elevators are stepped, a pendingRequests entry is
\* removed, and one record with its elevatorId, floor and request timestamp is
\* appended to recentArrivals, if and only if the rounded currentFloor of its
\* elevator equals its floor and the elevator is in DOORS_OPENING or DOORS_OPEN;
\* every other entry stays in pendingRequests unchanged.
C22_RemovedIffMatched ==
    [][lastOp'.op = "tick" =>
          /\ \A i \in 1..Len(pendingRequests) :
                pendingRequests[i] \in removed <=> matchedAfter(pendingRequests[i])
          /\ pendingRequests' = without(pendingRequests, removed)
          /\ \E d \in 0..Len(recentArrivals) : appendsMatched(d)]_vars

\* C22 witness: the tick of an arrival has completed one request of the burst
\* and left another, for a floor the elevator is not at, in pendingRequests.
C22_Witness ==
    /\ lastOp.op = "tick"
    /\ notified # <<>>
    /\ Len(pendingRequests) = 1
    /\ LET newest == recentArrivals[Len(recentArrivals)]
       IN  /\ newest.requestTime \in DateNow
           /\ newest.floor = notified[1].floor
           /\ newest.floor # pendingRequests[1].floor
           /\ \E e \in DOMAIN elevators :
                 /\ elevators[e].status = "DOORS_OPENING"
                 /\ elevators[e].currentFloor = newest.floor * PosScale

\* the step makes elevator e take the head of its queue as its destination
takesHead(e) ==
    /\ elevators'[e].targetFloor = <<Head(elevators[e].queue)>>
    /\ elevators'[e].queue = Tail(elevators[e].queue)
    /\ elevators'[e].status \in Moving

\* C23: when an elevator takes a new destination, from IDLE on a tick or from
\* ARRIVED when the dwell timer fires, the destination is the element that was at
\* the head of the queue and the remaining elements keep their order; if the
\* queue is empty when the dwell timer fires the elevator becomes IDLE with
\* direction NONE; and a destination is taken in no other way.
C23_NextDestinationIsQueueHead ==
    [][\A e \in DOMAIN elevators :
          /\ (lastOp'.op = "tick" /\ elevators[e].status = "IDLE"
                 /\ elevators[e].queue # <<>>) => takesHead(e)
          /\ (lastOp'.op = "timer" /\ elevators[e].status = "ARRIVED"
                 /\ elevators[e].queue # <<>>) => takesHead(e)
          /\ (lastOp'.op = "timer" /\ elevators[e].status = "ARRIVED"
                 /\ elevators[e].queue = <<>>)
                => /\ elevators'[e].status = "IDLE"
                   /\ elevators'[e].direction = "NONE"
                   /\ elevators'[e].targetFloor = <<>>
                   /\ elevators'[e].queue = <<>>
          /\ (elevators'[e].targetFloor # <<>>
                 /\ elevators'[e].targetFloor # elevators[e].targetFloor)
                => /\ elevators[e].queue # <<>>
                   /\ takesHead(e)
                   /\ \/ lastOp'.op = "tick" /\ elevators[e].status = "IDLE"
                      \/ lastOp'.op = "timer" /\ elevators[e].status = "ARRIVED"]_vars

\* C23 witness: the dwell timer has fired on a queue of three stops that was not
\* in sorted order: the head is the destination, the other two are as they were.
C23_Witness ==
    /\ lastOp.op = "timer"
    /\ \E e \in DOMAIN elevators :
          /\ elevators[e].status \in Moving
          /\ elevators[e].targetFloor # <<>>
          /\ elevators[e].currentFloor % PosScale = 0
          /\ Len(elevators[e].queue) = 2
          /\ ~ascending(elevators[e].queue)
          /\ ~descending(<<elevators[e].targetFloor[1]>> \o elevators[e].queue)

\* speed * dt in position units
floorsPerTick == (elevatorSpeed * UPDATE_RATE * PosScale) \div 1000

\* a tick moves elevator e, MOVING towards destination t, by floorsPerTick, or
\* sets it down at t when the move would reach or pass t
MovesTowards(e, t) ==
    LET from == elevators[e].currentFloor
        up == t * PosScale >= from
        next == IF up THEN from + floorsPerTick ELSE from - floorsPerTick
        reaches == IF up THEN next >= t * PosScale ELSE next <= t * PosScale
    IN  IF reaches
        THEN /\ elevators'[e].currentFloor = t * PosScale
             /\ elevators'[e].targetFloor = <<>>
             /\ elevators'[e].status = "DOORS_OPENING"
        ELSE /\ elevators'[e].currentFloor = next
             /\ elevators'[e].targetFloor = <<t>>
             /\ elevators'[e].status = elevators[e].status

\* C24: while MOVING, each tick moves currentFloor by speed * dt towards
\* targetFloor and never past it, and the tick that would reach or pass it sets
\* currentFloor to the destination, clears targetFloor and makes the status
\* DOORS_OPENING.
C24_TickMovesTowardsTarget ==
    [][lastOp'.op = "tick" =>
          \A e \in DOMAIN elevators :
             (elevators[e].status \in Moving /\ elevators[e].targetFloor # <<>>)
                => MovesTowards(e, elevators[e].targetFloor[1])]_vars

\* the step is a command that applies addFloorToQueue(floor) to elevator e
addsFloor(e, floor) ==
    /\ lastOp'.id = e
    /\ lastOp'.floor = floor
    /\ \/ lastOp'.op = "callElevator"
       \/ lastOp'.op = "selectFloor" /\ floor >= 0 /\ floor < numFloors

\* C26: addFloorToQueue(level) on an elevator that is IDLE at level changes
\* nothing in the elevator: queue, targetFloor, status, direction, position and
\* door are as before.
C26_NoOpWhenIdleAtFloor ==
    [][\A e \in DOMAIN elevators : \A floor \in 0..numFloors :
          (addsFloor(e, floor) /\ idleAt(e, floor))
             => elevators'[e] = elevators[e]]_vars

\* C26 witness: a command has asked an IDLE elevator, with a stop for another
\* floor already in its queue, for the floor it stands at.
C26_Witness ==
    /\ lastOp.op \in {"selectFloor", "callElevator"}
    /\ lastOp.id \in DOMAIN elevators
    /\ floorInRange(lastOp.floor)
    /\ idleAt(lastOp.id, lastOp.floor)
    /\ Len(elevators[lastOp.id].queue) = 1
    /\ ~includes(elevators[lastOp.id].queue, lastOp.floor)

\* C27: addFloorToQueue is idempotent: in every elevator state and for every
\* floor, two calls in a row leave the elevator as one call does, and a call with
\* a floor that is in the queue or is the targetFloor leaves it unchanged.
C27_AddFloorIsIdempotent ==
    \A e \in DOMAIN elevators : \A floor \in 0..numFloors :
        /\ addFloorToQueue(addFloorToQueue(elevators[e], floor), floor)
              = addFloorToQueue(elevators[e], floor)
        /\ hasStop(e, floor) => addFloorToQueue(elevators[e], floor) = elevators[e]

\* C27 witness: a command has just inserted a floor in front of another stop of
\* a moving elevator, so that the same command again finds the floor queued.
C27_Witness ==
    /\ lastOp.op = "selectFloor"
    /\ lastOp.id \in DOMAIN elevators
    /\ elevators[lastOp.id].status \in Moving
    /\ Len(elevators[lastOp.id].queue) >= 2
    /\ elevators[lastOp.id].queue[1] = lastOp.floor

\* C28: the currentFloor of an elevator changes only in a tick: callElevator,
\* selectFloor and every door or dwell timer leave the currentFloor of every
\* elevator as it is.
C28_PositionChangesOnlyInTick ==
    [][lastOp'.op # "tick" =>
          \A e \in DOMAIN elevators :
             elevators'[e].currentFloor = elevators[e].currentFloor]_vars

\* C28 witness: the dwell timer has sent the elevator on its next trip and it
\* still stands at the floor it arrived at.
C28_Witness ==
    /\ lastOp.op = "timer"
    /\ \E e \in DOMAIN elevators :
          /\ elevators[e].status \in Moving
          /\ elevators[e].direction \in {"UP", "DOWN"}
          /\ elevators[e].currentFloor % PosScale = 0
          /\ elevators[e].currentFloor > 0

\* q2 is q, or q with one more element put in somewhere
addsAtMostOne(q, q2) ==
    \/ q2 = q
    \/ \E i \in 1..Len(q2) : removeAt(q2, i) = q

\* C29: while an elevator is in DOORS_OPENING, DOORS_OPEN, DOORS_CLOSING or
\* ARRIVED, ticks, callElevator and selectFloor leave its status, currentFloor,
\* targetFloor, direction and doorOpen unchanged and can only add to its queue;
\* only a timer of the elevator itself moves it to another phase.
C29_DoorPhasesOnlyTimerDriven ==
    [][\A e \in DOMAIN elevators :
          elevators[e].status \in {"DOORS_OPENING", "DOORS_OPEN", "DOORS_CLOSING", "ARRIVED"}
             => /\ (lastOp'.op # "timer")
                      => /\ elevators'[e].status = elevators[e].status
                         /\ elevators'[e].currentFloor = elevators[e].currentFloor
                         /\ elevators'[e].targetFloor = elevators[e].targetFloor
                         /\ elevators'[e].direction = elevators[e].direction
                         /\ elevators'[e].doorOpen = elevators[e].doorOpen
                         /\ elevators'[e].timers = elevators[e].timers
                         /\ addsAtMostOne(elevators[e].queue, elevators'[e].queue)
                /\ elevators'[e].status # elevators[e].status
                      => lastOp' = [op |-> "timer", id |-> e, floor |-> -1]]_vars

\* C29 witness: a tick has passed over an elevator in ARRIVED that has stops
\* queued, and it is still in ARRIVED with its dwell timer pending.
C29_Witness ==
    /\ lastOp.op = "tick"
    /\ \E e \in DOMAIN elevators :
          /\ elevators[e].status = "ARRIVED"
          /\ Len(elevators[e].queue) >= 2
          /\ Len(elevators[e].timers) = 1

\* C30: for each elevator at most one door or dwell timer is outstanding at any
\* time, and an arrival, which starts a new chain of timers, never happens while
\* a timer of an earlier arrival is pending.
C30_OneTimerPerElevator ==
    /\ [](\A e \in DOMAIN elevators : Len(elevators[e].timers) <= 1)
    /\ [][\A e \in DOMAIN elevators :
            arrives(e) => (elevators[e].timers = <<>> /\ Len(elevators'[e].timers) = 1)]_vars

\* C30 witness: an elevator has arrived for the second time and the only timer
\* pending is the first of the new chain.
C30_Witness ==
    /\ lastOp.op = "tick"
    /\ Len(recentArrivals) >= 1
    /\ \E e \in DOMAIN elevators :
          /\ elevators[e].status = "DOORS_OPENING"
          /\ Len(elevators[e].timers) = 1
          /\ elevators[e].timers[1].kind = "doorsOpen"
          /\ \E i \in 1..Len(recentArrivals) :
                /\ recentArrivals[i].elevatorId = elevators[e].id
                /\ recentArrivals[i].floor * PosScale # elevators[e].currentFloor

\* the statement of C25 as an equality: DOORS_OPENING lasts doorTime/4,
\* DOORS_OPEN doorTime/2, DOORS_CLOSING doorTime/4 and ARRIVED 2000 ms, so that
\* the elevator leaves ARRIVED exactly doorTime + 2000 ms after it arrived.
\* With `now` the time since the arrival, each phase is held only between its
\* two instants (the door phases of the next arrival come after doorTime + 2000),
\* and the dwell callback, the one that makes the elevator idle or moving, runs
\* at doorTime + 2000.
C25_PhaseDurations ==
    \A e \in DOMAIN elevators :
        LET status == elevators[e].status
            dt == elevators[e].doorTime
        IN  /\ status \in {"IDLE"} \cup Moving => now >= dt + 2000
            /\ (lastOp.op = "timer" /\ status \in {"IDLE"} \cup Moving) => now = dt + 2000
            /\ now <= dt + 2000 =>
                   /\ status = "DOORS_OPENING" => now <= dt \div 4
                   /\ status = "DOORS_OPEN" =>
                          /\ dt \div 4 <= now
                          /\ now <= dt \div 4 + dt \div 2
                   /\ status = "DOORS_CLOSING" =>
                          /\ dt \div 4 + dt \div 2 <= now
                          /\ now <= dt
                   /\ status = "ARRIVED" => dt <= now

\* the time a phase lasts at the least, for the door-cycle duration dt
phaseDelay(status, dt) ==
    CASE status = "DOORS_OPENING" -> dt \div 4
      [] status = "DOORS_OPEN" -> dt \div 2
      [] status = "DOORS_CLOSING" -> dt \div 4
      [] status = "ARRIVED" -> 2000

\* C25: after an arrival DOORS_OPENING lasts at least doorTime/4, DOORS_OPEN at
\* least doorTime/2, DOORS_CLOSING at least doorTime/4 and ARRIVED at least
\* 2000 ms whatever doorTime is, so that the elevator leaves ARRIVED no earlier
\* than doorTime + 2000 ms after it arrived.  With `now` the time since the
\* arrival no phase is reached before the phases ahead of it have lasted that
\* long, and a phase ends only by the one pending callback, whose delay is the
\* phase's, when the phase has lasted that delay or longer.
C25_PhasesLastTheirDelayOrLonger ==
    /\ [](\A e \in DOMAIN elevators :
             LET status == elevators[e].status
                 dt == elevators[e].doorTime
             IN  /\ status = "DOORS_OPEN" => now >= dt \div 4
                 /\ status = "DOORS_CLOSING" => now >= dt \div 4 + dt \div 2
                 /\ status = "ARRIVED" => now >= dt
                 /\ status \in {"IDLE"} \cup Moving => now >= dt + 2000)
    /\ [][\A e \in DOMAIN elevators :
             LET status == elevators[e].status
                 dt == elevators[e].doorTime
             IN  (/\ status \in {"DOORS_OPENING", "DOORS_OPEN", "DOORS_CLOSING", "ARRIVED"}
                  /\ elevators'[e].status # status)
                 => /\ Len(elevators[e].timers) = 1
                    /\ elevators[e].timers[1].delay = phaseDelay(status, dt)
                    /\ elevators[e].timers[1].elapsed + (now' - now)
                           >= phaseDelay(status, dt)]_vars

\* C25 witness: an elevator whose door cycle is not the configured one has gone
\* through the four phases with every callback on time, and the dwell timer has
\* just sent it on its next trip, doorTime + 2000 ms after the arrival.
C25_Witness ==
    /\ lastOp.op = "timer"
    /\ \E e \in DOMAIN elevators :
          /\ elevators[e].doorTime # doorTime
          /\ now = elevators[e].doorTime + 2000
          /\ elevators[e].status \in Moving
          /\ elevators[e].direction \in {"UP", "DOWN"}


\* the score of the elevator at fleet index i for a call with the draws tb
scoreOf(i, floor, direction, tb) ==
    calculateElevatorScore(elevators[i], floor, direction, tb[i])

\* C31: findBestElevator returns an elevator whose score is minimal over the
\* fleet, and among exactly equal scores the one with the lowest fleet index:
\* every elevator before the chosen one scores strictly more (of a fleet with
\* no elevators there is none to return).
C31_MinimalScoreLowestIndex ==
    numElevators > 0 =>
    \A floor \in InputFloors, direction \in CallDirections,
       tb \in TieBreakerDraws(elevators) :
        LET best == findBestElevator(elevators, floor, direction, tb)
        IN  /\ best # <<>>
            /\ best[1] \in DOMAIN elevators
            /\ \A j \in DOMAIN elevators :
                   /\ scoreOf(best[1], floor, direction, tb) <= scoreOf(j, floor, direction, tb)
                   /\ j < best[1] =>
                          scoreOf(j, floor, direction, tb) > scoreOf(best[1], floor, direction, tb)

\* a call went to elevator 0 although elevator 1 was under way exactly like it
C31_Witness ==
    /\ lastOp.op = "callElevator"
    /\ lastOp.id = 0
    /\ elevators[0].status \in Moving
    /\ elevators[0].queue = Append(elevators[1].queue, lastOp.floor)
    /\ [elevators[0] EXCEPT !.queue = elevators[1].queue, !.id = 1] = elevators[1]


\* the queue entries strictly between the elevator and `floor` on its heading
stopsBefore(el, floor) ==
    {i \in 1..Len(el.queue) :
        \/ /\ el.direction = "UP"
           /\ el.currentFloor < el.queue[i] * PosScale
           /\ el.queue[i] < floor
        \/ /\ el.direction = "DOWN"
           /\ floor < el.queue[i]
           /\ el.queue[i] * PosScale < el.currentFloor}

\* the score the documentation gives for an elevator that is not IDLE, in
\* score units: 1000 + 10 * distance + 100 * workload + 2 * estimatedArrival,
\* less 300 on the way in the wanted direction, plus 200 when heading away
documentedScore(el, floor, direction) ==
    LET level == floor * PosScale
        distance == IF el.currentFloor > level
                    THEN el.currentFloor - level ELSE level - el.currentFloor
        workload == Len(el.queue) + (IF el.targetFloor = <<>> THEN 0 ELSE 1)
        towards == \/ el.direction = "UP" /\ level > el.currentFloor
                   \/ el.direction = "DOWN" /\ level < el.currentFloor
        estimatedArrival ==
            (distance * ScoreScale) \div (PosScale * elevatorSpeed)
            + (doorTime * Cardinality(stopsBefore(el, floor)) * ScoreScale) \div 1000
        bonus == IF direction \in {"UP", "DOWN"} /\ direction = el.direction /\ towards
                 THEN 300 * ScoreScale ELSE 0
        penalty == IF el.direction # "NONE" /\ ~towards THEN 200 * ScoreScale ELSE 0
    IN  1000 * ScoreScale + (10 * distance * ScoreScale) \div PosScale
        + 100 * workload * ScoreScale + 2 * estimatedArrival - bonus + penalty

\* C32: for every elevator that is not IDLE, every level and optional
\* direction, calculateElevatorScore is 1000 + 10 * distance + 100 * workload
\* + 2 * estimatedArrival, minus 300 exactly when the direction is given,
\* equals the elevator's and the elevator moves towards the level, plus 200
\* exactly when the elevator has a direction and does not move towards it.
C32_BusyScoreFormula ==
    \A e \in DOMAIN elevators :
        elevators[e].status # "IDLE" =>
            \A floor \in ScoreFloors, direction \in CallDirections, tb \in TieBreakers :
                calculateElevatorScore(elevators[e], floor, direction, tb)
                    = documentedScore(elevators[e], floor, direction)

\* a call was scored for an elevator heading up with a stop before the level
C32_Witness ==
    /\ lastOp.op = "callElevator"
    /\ \E e \in DOMAIN elevators :
           /\ elevators[e].status \in {"DOORS_OPENING", "DOORS_OPEN", "DOORS_CLOSING", "ARRIVED"}
           /\ elevators[e].direction = "UP"
           /\ stopsBefore(elevators[e], lastOp.floor) # {}
           /\ lastOp.id # e


\* the elevators a step changes
changedElevators == {e \in DOMAIN elevators : elevators'[e] # elevators[e]}

\* a command changes at most one elevator, of it nothing but the queue, and
\* leaves recentArrivals alone; selectFloor leaves pendingRequests alone
commandFrame ==
    /\ Cardinality(changedElevators) <= 1
    /\ \A e \in DOMAIN elevators :
           [elevators'[e] EXCEPT !.queue = elevators[e].queue] = elevators[e]
    /\ recentArrivals' = recentArrivals
    /\ lastOp'.op = "selectFloor" =>
           /\ pendingRequests' = pendingRequests
           /\ changedElevators \subseteq {lastOp'.id}

\* callElevator appends one entry, with the id of the chosen elevator and the level
addsOneRequest ==
    /\ lastOp'.id \in DOMAIN elevators
    /\ changedElevators \subseteq {lastOp'.id}
    /\ Len(pendingRequests') = Len(pendingRequests) + 1
    /\ SubSeq(pendingRequests', 1, Len(pendingRequests)) = pendingRequests
    /\ pendingRequests'[Len(pendingRequests')].elevatorId = elevators[lastOp'.id].id
    /\ pendingRequests'[Len(pendingRequests')].floor = lastOp'.floor

\* C33 as stated: callElevator and selectFloor change at most one elevator and
\* of it only its queue; callElevator adds exactly one pendingRequests entry
\* with the chosen elevator's id and the level, selectFloor adds none, and
\* neither changes recentArrivals.
C33_CommandsChangeOneQueue ==
    [][lastOp'.op \in {"callElevator", "selectFloor"} =>
           /\ commandFrame
           /\ lastOp'.op = "callElevator" => addsOneRequest]_vars

\* C33, amended: as stated when the fleet has an elevator; callElevator on a
\* fleet without elevators adds no pendingRequests entry and changes nothing
\* of the fleet.
C33_CommandsChangeOneQueueOfAFleet ==
    [][lastOp'.op \in {"callElevator", "selectFloor"} =>
           /\ commandFrame
           /\ lastOp'.op = "callElevator" =>
                  IF numElevators > 0
                  THEN addsOneRequest
                  ELSE pendingRequests' = pendingRequests /\ changedElevators = {}]_vars

\* a call on two elevators went to elevator 1, which has the level queued and
\* the request on record, while elevator 0 is as it was constructed
C33_Witness ==
    /\ numElevators = 2
    /\ lastOp.op = "callElevator"
    /\ lastOp.id = 1
    /\ includes(elevators[1].queue, lastOp.floor)
    /\ elevators[0] = NewElevator(0, 0)
    /\ Len(pendingRequests) = 1
    /\ pendingRequests[1].elevatorId = 1
    /\ pendingRequests[1].floor = lastOp.floor


\* C34: an elevator with status MOVING_UP has direction UP and a targetFloor
\* above its currentFloor, one with status MOVING_DOWN has direction DOWN and
\* a targetFloor below it: a moving elevator never has direction NONE and
\* never has its own level as destination.
C34_MovingHasHeadingAndDistantTarget ==
    \A e \in DOMAIN elevators :
        LET el == elevators[e]
        IN  /\ el.status = "MOVING_UP" =>
                   /\ el.direction = "UP"
                   /\ el.targetFloor # <<>>
                   /\ el.targetFloor[1] * PosScale > el.currentFloor
            /\ el.status = "MOVING_DOWN" =>
                   /\ el.direction = "DOWN"
                   /\ el.targetFloor # <<>>
                   /\ el.targetFloor[1] * PosScale < el.currentFloor

\* C35: targetFloor is set exactly when the status is MOVING_UP or
\* MOVING_DOWN, and an IDLE elevator has direction NONE and no targetFloor.
C35_TargetIffMoving ==
    \A e \in DOMAIN elevators :
        /\ elevators[e].targetFloor # <<>> <=> elevators[e].status \in Moving
        /\ elevators[e].status = "IDLE" =>
               /\ elevators[e].direction = "NONE"
               /\ elevators[e].targetFloor = <<>>

\* the dwell timer has set an elevator IDLE at a floor it travelled to
C35_Witness ==
    /\ lastOp.op = "timer"
    /\ \E e \in DOMAIN elevators :
           /\ elevators[e].status = "IDLE"
           /\ elevators[e].currentFloor > 0
           /\ elevators[e].targetFloor = <<>>
           /\ elevators[e].direction = "NONE"
           /\ elevators[e].timers = <<>>

\* the entries that are pending after the step for elevator e at the floor it is at
pendingAtFloorAfter(e) ==
    {i \in 1..Len(pendingRequests') :
        /\ pendingRequests'[i].elevatorId = elevators[e].id
        /\ pendingRequests'[i].floor * PosScale = elevators'[e].currentFloor}

\* C36: when an elevator goes from MOVING to DOORS_OPENING at a level during
\* a tick, every pendingRequests entry assigned to it with that level is
\* removed by the checkArrivals of the same tick, whenever the door timers
\* fire afterwards.
C36_ArrivalReconciledInSameTick ==
    [][\A e \in DOMAIN elevators :
           arrives(e) => lastOp'.op = "tick" /\ pendingAtFloorAfter(e) = {}]_vars

\* the tick of an arrival has completed the request for the floor: its record
\* is the newest of recentArrivals and nothing is pending for the elevator
C36_Witness ==
    /\ lastOp.op = "tick"
    /\ \E e \in DOMAIN elevators :
           /\ elevators[e].status = "DOORS_OPENING"
           /\ notified = <<[elevatorId |-> elevators[e].id,
                            floor |-> round(elevators[e].currentFloor)]>>
           /\ recentArrivals # <<>>
           /\ recentArrivals[Len(recentArrivals)].elevatorId = elevators[e].id
           /\ recentArrivals[Len(recentArrivals)].floor = notified[1].floor
           /\ pendingRequests = <<>>

\* elevator e is at rest at floor
stationaryAt(e, floor) ==
    elevators[e].status \notin Moving /\ elevators[e].currentFloor = floor * PosScale

\* C37: every pendingRequests entry is backed by a scheduled stop: its
\* elevator has the floor in its queue or as its targetFloor, or is at rest
\* at that floor.
C37_PendingBackedByStop ==
    \A i \in 1..Len(pendingRequests) :
        /\ pendingRequests[i].elevatorId \in DOMAIN elevators
        /\ \/ hasStop(pendingRequests[i].elevatorId, pendingRequests[i].floor)
           \/ stationaryAt(pendingRequests[i].elevatorId, pendingRequests[i].floor)

\* the last step was not a command
noCommand == lastOp.op \notin {"callElevator", "selectFloor"}

\* every elevator is IDLE with nothing left to do
allIdle ==
    \A e \in DOMAIN elevators :
        /\ elevators[e].status = "IDLE"
        /\ elevators[e].queue = <<>>
        /\ elevators[e].targetFloor = <<>>
        /\ elevators[e].direction = "NONE"

\* C38: if from some point on no callElevator or selectFloor arrives, then
\* with the tick and the door timers running every elevator eventually is
\* IDLE with an empty queue, no targetFloor and direction NONE, and stays so
\* (the doors it has to have opened on the way are those of C4's arrivals),
\* unless the update loop is stopped.
C38_QuiescentFleetBecomesIdle ==
    <>[]noCommand => <>[](stopped \/ allIdle)

\* distance + 3 * workload of elevator e for `floor`, in score units: the score
\* of an IDLE elevator without its tie-breaker
idleKey(e, floor) ==
    (getDistanceToFloor(elevators[e], floor) * ScoreScale) \div PosScale
    + 3 * currentWorkload(elevators[e]) * ScoreScale

\* the step is a call that chose IDLE elevator B although IDLE elevator A had
\* the smaller distance + 3 * workload
prefersWorseIdle(A, B) ==
    /\ lastOp'.op = "callElevator"
    /\ lastOp'.id = B
    /\ elevators[A].status = "IDLE"
    /\ elevators[B].status = "IDLE"
    /\ idleKey(A, lastOp'.floor) < idleKey(B, lastOp'.floor)

\* the floors of the requests on record for elevator e
requestedOf(e) ==
    {pendingRequests[i].floor :
        i \in {j \in 1..Len(pendingRequests) : pendingRequests[j].elevatorId = e}}

\* all elevators are IDLE at one level and have received nothing but at most
\* as many hall calls as there are elevators, all to other levels
idleFleetAfterCalls ==
    /\ numElevators > 0
    /\ Len(pendingRequests) <= numElevators
    /\ \A e \in DOMAIN elevators :
           /\ elevators[e].status = "IDLE"
           /\ elevators[e].targetFloor = <<>>
           /\ elevators[e].currentFloor = elevators[0].currentFloor
           /\ Len(elevators[e].queue) = Cardinality(elements(elevators[e].queue))
           /\ elements(elevators[e].queue) = requestedOf(e)
    /\ \A i \in 1..Len(pendingRequests) :
           pendingRequests[i].floor * PosScale # elevators[0].currentFloor

distinctAssignments ==
    \A i, j \in 1..Len(pendingRequests) :
        i # j => pendingRequests[i].elevatorId # pendingRequests[j].elevatorId

\* C39: the tie-breaker decides only between IDLE elevators of equal distance
\* + 3 * workload: callElevator never selects an IDLE elevator when another
\* IDLE elevator has a strictly smaller distance + 3 * workload, whatever the
\* draws in [0, 0.5); hence n successive calls to other levels, made before
\* any tick to n IDLE elevators at one level, go to n distinct elevators.
C39_TieBreakerOnlyBreaksTies ==
    [][/\ \A A, B \in DOMAIN elevators : ~prefersWorseIdle(A, B)
       /\ idleFleetAfterCalls' => distinctAssignments']_vars

\* two IDLE elevators at floor 0 have received one call each, the second
\* call going to the elevator that had no stop yet
C39_Witness ==
    /\ numElevators = 2
    /\ idleFleetAfterCalls
    /\ lastOp.op = "callElevator"
    /\ Len(pendingRequests) = 2
    /\ pendingRequests[1].elevatorId # pendingRequests[2].elevatorId
    /\ Len(elevators[0].queue) = 1
    /\ Len(elevators[1].queue) = 1

====
